---- MODULE Spec2Model ----
(***************************************************************************)
(* Model of the report analyzer backend: the template store, validator and  *)
(* extraction of backend/template_manager.py, the request handlers of       *)
(* backend/simple_app.py that drive them, and the keyword analyzer          *)
(* EnhancedAI with its conclusion.                                          *)
(*                                                                         *)
(* A Python str is a sequence of one-character strings; "\n" is the        *)
(* newline.  A Python dict holding a template is an object on a heap, so   *)
(* that two names for the same dict are the same reference.                *)
(***************************************************************************)
EXTENDS Integers, Sequences, FiniteSets, TLC

\* ------------------------------------------------------------------------
\* Bounds of the model
\* ------------------------------------------------------------------------
\* save_template calls in the sequential specification
MaxSaves == 3
\* POST requests in flight in the concurrent specification
MaxPosts == 2
\* whitespace-separated words of an analyzed text
MaxWords == 3

\* ------------------------------------------------------------------------
\* Python str primitives
\* ------------------------------------------------------------------------
NL == "\n"

Upper == <<"A","B","C","D","E","F","G","H","I","J","K","L","M","N","O","P","Q","R","S","T","U","V","W","X","Y","Z">>
Lower == <<"a","b","c","d","e","f","g","h","i","j","k","l","m","n","o","p","q","r","s","t","u","v","w","x","y","z">>
Digits == {"0","1","2","3","4","5","6","7","8","9"}

Range(s) == {s[i] : i \in DOMAIN s}

IsUpper(c) == c \in Range(Upper)
IsLowerAZ(c) == c \in Range(Lower)
IsDigit(c) == c \in Digits
\* \s of the re module on the characters the model uses
IsSpace(c) == c \in {" ", "\t", NL}
\* \w of the re module
IsWordChar(c) == IsUpper(c) \/ IsLowerAZ(c) \/ IsDigit(c) \/ c = "_"

\* str.lower() on one character
LowerChar(c) ==
    IF IsUpper(c) THEN Lower[CHOOSE i \in DOMAIN Upper : Upper[i] = c] ELSE c

\* str.lower()
lower(s) == [i \in DOMAIN s |-> LowerChar(s[i])]

\* str.strip()
strip(s) ==
    LET n == Len(s)
        nonsp == {i \in 1..n : ~IsSpace(s[i])}
    IN  IF nonsp = {} THEN <<>>
        ELSE LET lo == CHOOSE i \in nonsp : \A j \in nonsp : i <= j
                 hi == CHOOSE i \in nonsp : \A j \in nonsp : j <= i
             IN  SubSeq(s, lo, hi)

\* `sub in s` for str
Contains(s, sub) ==
    \E i \in 0..(Len(s) - Len(sub)) : SubSeq(s, i + 1, i + Len(sub)) = sub

\* str.split(sep) for a one-character separator: always at least one piece
RECURSIVE SplitOn(_, _)
SplitOn(s, sep) ==
    LET hits == {i \in 1..Len(s) : s[i] = sep}
    IN  IF hits = {} THEN <<s>>
        ELSE LET k == CHOOSE i \in hits : \A j \in hits : i <= j
             IN  <<SubSeq(s, 1, k - 1)>> \o SplitOn(SubSeq(s, k + 1, Len(s)), sep)

\* text.split('\n')
SplitLines(text) == SplitOn(text, NL)

\* '\n'.join(lines)
RECURSIVE JoinLines(_)
JoinLines(ls) ==
    IF Len(ls) = 0 THEN <<>>
    ELSE IF Len(ls) = 1 THEN ls[1]
    ELSE ls[1] \o <<NL>> \o JoinLines(Tail(ls))

\* str.split(): runs of non-whitespace characters
RECURSIVE SplitWords(_)
SplitWords(s) ==
    LET n == Len(s)
        nonsp == {i \in 1..n : ~IsSpace(s[i])}
    IN  IF nonsp = {} THEN <<>>
        ELSE LET lo == CHOOSE i \in nonsp : \A j \in nonsp : i <= j
                 sps == {i \in lo..n : IsSpace(s[i])}
                 hi == IF sps = {} THEN n + 1
                       ELSE CHOOSE i \in sps : \A j \in sps : i <= j
             IN  <<SubSeq(s, lo, hi - 1)>> \o SplitWords(SubSeq(s, hi, n))

\* sequences over S of length at most n
SeqsUpTo(S, n) == UNION {[1..k -> S] : k \in 0..n}

Min(a, b) == IF a <= b THEN a ELSE b
Max(a, b) == IF a >= b THEN a ELSE b

\* ------------------------------------------------------------------------
\* Regular expressions of the re module, as data
\* ------------------------------------------------------------------------
\* A pattern is a sequence of items:
\*   [k |-> "cls", cls |-> S, lo |-> m, hi |-> n]  a character of S, m to n times
\*                                                 (hi = -1: unbounded)
\*   [k |-> "alt", alts |-> A]                     one of the literals of A
\*   [k |-> "opt", sub |-> p]                      (?:p)?
\*   [k |-> "wb"]  \b      [k |-> "bos"]  ^        [k |-> "eos"]  $
Cls(S, lo, hi) == [k |-> "cls", cls |-> S, lo |-> lo, hi |-> hi]
Alt(A) == [k |-> "alt", alts |-> A]
Lit(s) == Alt({s})
Opt(p) == [k |-> "opt", sub |-> p]
WB == [k |-> "wb"]
BOS == [k |-> "bos"]
EOS == [k |-> "eos"]

SpaceChars == {" ", "\t", NL}
Letters == Range(Upper) \cup Range(Lower)

\* offsets q such that pat[k..] matches s[p+1..q]
RECURSIVE Ends(_, _, _, _)
Ends(pat, k, s, p) ==
    IF k > Len(pat) THEN {p}
    ELSE LET it == pat[k]
             n == Len(s)
         IN  CASE it.k = "cls" ->
                    LET top == IF it.hi = -1 THEN n - p ELSE Min(it.hi, n - p)
                        ok == {m \in it.lo..top : \A j \in 1..m : s[p + j] \in it.cls}
                    IN  UNION {Ends(pat, k + 1, s, p + m) : m \in ok}
               [] it.k = "alt" ->
                    LET ok == {a \in it.alts :
                                  /\ p + Len(a) <= n
                                  /\ SubSeq(s, p + 1, p + Len(a)) = a}
                    IN  UNION {Ends(pat, k + 1, s, p + Len(a)) : a \in ok}
               [] it.k = "opt" ->
                    Ends(pat, k + 1, s, p) \cup
                    UNION {Ends(pat, k + 1, s, q) : q \in Ends(it.sub, 1, s, p)}
               [] it.k = "wb" ->
                    LET before == p > 0 /\ IsWordChar(s[p])
                        after == p < n /\ IsWordChar(s[p + 1])
                    IN  IF before # after THEN Ends(pat, k + 1, s, p) ELSE {}
               [] it.k = "bos" ->
                    IF p = 0 THEN Ends(pat, k + 1, s, p) ELSE {}
               [] it.k = "eos" ->
                    IF p = n \/ (p = n - 1 /\ s[n] = NL)
                    THEN Ends(pat, k + 1, s, p) ELSE {}

\* bool(re.search(pat, s))
Search(pat, s) == \E p \in 0..Len(s) : Ends(pat, 1, s, p) # {}

\* ------------------------------------------------------------------------
\* TemplateManager: pattern tables
\* ------------------------------------------------------------------------
\* ^(?:#+\s*)?(?:w1|w2|...):?$
HeaderPattern(words) ==
    << BOS, Opt(<<Cls({"#"}, 1, -1), Cls(SpaceChars, 0, -1)>>),
       Alt(words), Cls({":"}, 0, 1), EOS >>

section_patterns ==
    << <<HeaderPattern({<<"a","c","c","o","m","p","l","i","s","h","m","e","n","t","s">>, <<"a","c","h","i","e","v","e","m","e","n","t","s">>, <<"c","o","m","p","l","e","t","e","d">>, <<"d","o","n","e">>}), "accomplishments">>,
       <<HeaderPattern({<<"c","h","a","l","l","e","n","g","e","s">>, <<"p","r","o","b","l","e","m","s">>, <<"i","s","s","u","e","s">>, <<"b","l","o","c","k","e","r","s">>}), "challenges">>,
       <<HeaderPattern({<<"p","l","a","n">>, <<"p","l","a","n","s">>, <<"n","e","x","t">>, <<"t","o","m","o","r","r","o","w">>, <<"f","u","t","u","r","e">>}), "plans">>,
       <<HeaderPattern({<<"m","e","t","r","i","c","s">>, <<"k","p","i","s">>, <<"s","t","a","t","s">>}), "metrics">>,
       <<HeaderPattern({<<"r","i","s","k">>, <<"r","i","s","k","s">>, <<"c","o","n","c","e","r","n","s">>}), "risks">>,
       <<HeaderPattern({<<"r","e","s","o","u","r","c","e">>, <<"r","e","s","o","u","r","c","e","s">>, <<"n","e","e","d","s">>}), "resources">> >>

\* the non-ASCII markers are written by their code points
DashChars == {"-", "U+2013", "U+2014"}
ArrowChars == {"U+2192", "U+21D2", "U+203A"}
BulletChars == {"U+2022", "U+25E6"}

\* ^\s*<marker>\s+
BulletPattern(marker) ==
    <<BOS, Cls(SpaceChars, 0, -1)>> \o marker \o <<Cls(SpaceChars, 1, -1)>>

DashPat == BulletPattern(<<Cls(DashChars, 1, 1)>>)
AsteriskPat == BulletPattern(<<Cls({"*"}, 1, 1)>>)
NumberPat == BulletPattern(<<Cls(Digits, 1, -1), Cls({".", ")"}, 1, 1)>>)
LetterPat == BulletPattern(<<Cls(Letters, 1, 1), Cls({".", ")"}, 1, 1)>>)
CheckboxPat == BulletPattern(<<Lit(<<"[">>), Cls({" ", "x"}, 1, 1), Lit(<<"]">>)>>)
ArrowPat == BulletPattern(<<Cls(ArrowChars, 1, 1)>>)
BulletPat == BulletPattern(<<Cls(BulletChars, 1, 1)>>)

\* the dict of _detect_bullet_style, in declaration order
bullet_patterns ==
    << <<"dash", DashPat>>, <<"asterisk", AsteriskPat>>, <<"number", NumberPat>>,
       <<"letter", LetterPat>>, <<"checkbox", CheckboxPat>>, <<"arrow", ArrowPat>>,
       <<"bullet", BulletPat>> >>

IsoPat == <<WB, Cls(Digits, 4, 4), Lit(<<"-">>), Cls(Digits, 2, 2), Lit(<<"-">>),
            Cls(Digits, 2, 2), WB>>
UsPat == <<WB, Cls(Digits, 1, 2), Lit(<<"/">>), Cls(Digits, 1, 2), Lit(<<"/">>),
           Cls(Digits, 4, 4), WB>>
EuroPat == <<WB, Cls(Digits, 1, 2), Lit(<<".">>), Cls(Digits, 1, 2), Lit(<<".">>),
             Cls(Digits, 4, 4), WB>>
Months == {<<"J","a","n">>, <<"F","e","b">>, <<"M","a","r">>, <<"A","p","r">>, <<"M","a","y">>, <<"J","u","n">>, <<"J","u","l">>, <<"A","u","g">>, <<"S","e","p">>, <<"O","c","t">>, <<"N","o","v">>, <<"D","e","c">>}
TextPat == <<WB, Alt(Months), Cls(Range(Lower), 0, -1), Lit(<<" ">>), Cls(Digits, 1, 2),
             Cls({","}, 0, 1), Lit(<<" ">>), Cls(Digits, 4, 4), WB>>

\* the dict of _detect_date_format, in declaration order
date_patterns ==
    << <<"iso", IsoPat>>, <<"us", UsPat>>, <<"euro", EuroPat>>, <<"text", TextPat>> >>

\* ------------------------------------------------------------------------
\* Inputs
\* ------------------------------------------------------------------------
LnMetricsHdr == <<"M","e","t","r","i","c","s",":">>
LnPlansHdr == <<"#","#"," ","P","l","a","n","s">>
LnMetricsLow == <<"m","e","t","r","i","c","s">>
LnMetricsLow2 == <<"m","e","t","r","i","c","s",":">>
LnMetricsUp == <<"M","E","T","R","I","C","S",":"," ","5">>
LnDashIso == <<"-"," ","2","0","2","4","-","0","1","-","0","5">>
LnStarUs == <<"*"," ","1","/","5","/","2","0","2","4">>
LnDash == <<"-"," ","a">>
LnStar == <<"*"," ","b">>
LnOurMetrics == <<"o","u","r"," ","m","e","t","r","i","c","s">>
LnAndPlans == <<"a","n","d"," ","p","l","a","n","s">>
LnPlansEuro == <<"P","L","A","N","S"," ","f","o","r"," ","5",".","1",".","2","0","2","4">>

\* the reports uploaded to /api/analyze-template
LearnTexts ==
    { JoinLines(<<LnMetricsHdr, LnDashIso>>),
      JoinLines(<<LnPlansHdr, LnStarUs>>),
      LnMetricsLow,
      LnDash }

\* the reports uploaded to /api/validate-report
ValidateTexts ==
    { <<>>,
      JoinLines(<<LnMetricsHdr, LnDashIso>>),
      JoinLines(<<LnPlansHdr, LnStarUs>>),
      JoinLines(<<LnOurMetrics, LnAndPlans>>),
      JoinLines(<<LnStar, LnStar, LnDash>>),
      JoinLines(<<LnMetricsHdr, LnMetricsLow2, LnMetricsUp>>),
      LnDash,
      LnPlansEuro }

LnLetterText == <<"a",")"," ","J","a","n"," ","5",","," ","2","0","2","4">>
LnKpisHdr == <<"K","P","I","s",":">>

\* reports for the detection of dates and bullets: dates and bullets of two
\* formats in both orders, a majority of one bullet style, and none of either
InferTexts ==
    { JoinLines(<<LnDashIso, LnStarUs>>),
      JoinLines(<<LnStarUs, LnDashIso>>),
      JoinLines(<<LnStar, LnStar, LnDash>>),
      JoinLines(<<LnDash, LnStar, LnStar>>),
      LnPlansEuro,
      LnLetterText,
      JoinLines(<<LnLetterText, LnPlansEuro>>),
      JoinLines(<<LnLetterText, LnDash>>),
      LnMetricsLow }

\* reports for the warnings and the extraction: a template of each date format
\* and of the bullet styles dash, asterisk, letter and none
FormatLearnTexts ==
    { JoinLines(<<LnMetricsHdr, LnDashIso>>),
      JoinLines(<<LnKpisHdr, LnLetterText>>),
      JoinLines(<<LnPlansHdr, LnStarUs>>),
      LnPlansEuro,
      LnDash }

FormatTexts ==
    { <<>>,
      JoinLines(<<LnMetricsHdr, LnDashIso>>),
      JoinLines(<<LnKpisHdr, LnLetterText>>),
      JoinLines(<<LnPlansHdr, LnStarUs>>),
      LnPlansEuro,
      JoinLines(<<LnDash, LnDash>>),
      JoinLines(<<LnStar, LnStar, LnDash>>) }

LnMetricsPadded == <<" "," ","M","e","t","r","i","c","s",":"," ">>
LnBlank == <<" ">>

\* reports for the sections: a header with and without lines below it, at the
\* end of the text, before another header, after and before a blank line, twice
\* under two spellings, and with blanks around it
SectionTexts ==
    { <<>>,
      LnMetricsHdr,
      LnDash,
      JoinLines(<<LnMetricsHdr, LnDash>>),
      JoinLines(<<LnDash, LnMetricsHdr>>),
      JoinLines(<<LnMetricsHdr, LnPlansHdr, LnDash>>),
      JoinLines(<<LnMetricsHdr, LnDash, LnPlansHdr>>),
      JoinLines(<<LnMetricsHdr, LnBlank, LnDash>>),
      JoinLines(<<LnMetricsHdr, <<>>, LnPlansHdr>>),
      JoinLines(<<LnKpisHdr, LnMetricsHdr, LnDash>>),
      JoinLines(<<LnKpisHdr, LnDash, LnMetricsHdr>>),
      JoinLines(<<LnMetricsPadded, LnStar, LnPlansHdr, LnDash>>),
      JoinLines(<<LnPlansHdr, LnMetricsUp>>) }

SecMetrics == <<"m","e","t","r","i","c","s">>
SecPlans == <<"p","l","a","n","s">>
SecMetricsCap == <<"M","e","t","r","i","c","s">>
SecAll == <<<<"a","c","c","o","m","p","l","i","s","h","m","e","n","t","s">>, <<"c","h","a","l","l","e","n","g","e","s">>, SecPlans, SecMetrics, <<"r","i","s","k","s">>, <<"r","e","s","o","u","r","c","e","s">>>>

\* the lists posted to /api/set-template-sections
RequiredLists == {<<SecMetrics>>, <<SecPlans, SecMetrics>>, <<SecMetricsCap>>, SecAll}

\* ------------------------------------------------------------------------
\* TemplateManager: template inference
\* ------------------------------------------------------------------------
None == "None"

\* index of the first section pattern matching the lowercased stripped line, 0 if none
SectionOf(line_stripped) ==
    LET hits == {i \in DOMAIN section_patterns :
                    Search(section_patterns[i][1], lower(line_stripped))}
    IN  IF hits = {} THEN 0 ELSE CHOOSE i \in hits : \A j \in hits : i <= j

\* the loop over lines of analyze_report_structure; acc carries current_section,
\* section_headers and the keys of the defaultdict sections
RECURSIVE ScanLines(_, _, _)
ScanLines(lines, i, acc) ==
    IF i > Len(lines) THEN acc
    ELSE LET line_stripped == strip(lines[i])
             sec == SectionOf(line_stripped)
         IN  IF line_stripped = <<>> THEN ScanLines(lines, i + 1, acc)
             ELSE IF sec # 0
             THEN ScanLines(lines, i + 1,
                      [acc EXCEPT !.current_section = section_patterns[sec][2],
                                  !.section_headers = @ \cup {line_stripped}])
             ELSE IF acc.current_section # None
             THEN ScanLines(lines, i + 1,
                      [acc EXCEPT !.sections = @ \cup {acc.current_section}])
             ELSE ScanLines(lines, i + 1, acc)

\* bullet_counts[style] after the loop over lines
BulletCount(lines, pat) == Cardinality({i \in DOMAIN lines : Search(pat, lines[i])})

\* first line at which a style enters the defaultdict bullet_counts
FirstHit(lines, pat) ==
    CHOOSE i \in DOMAIN lines :
        Search(pat, lines[i]) /\ \A j \in DOMAIN lines : Search(pat, lines[j]) => i <= j

\* max(bullet_counts.items(), key=...)[0]: the first maximum in the insertion order
\* of the dict, which is the order of first match (line, then declaration order)
detect_bullet_style(lines) ==
    LET styles == {k \in DOMAIN bullet_patterns :
                      BulletCount(lines, bullet_patterns[k][2]) > 0}
        cnt(k) == BulletCount(lines, bullet_patterns[k][2])
        first(k) == FirstHit(lines, bullet_patterns[k][2])
        before(a, b) == first(a) < first(b) \/ (first(a) = first(b) /\ a <= b)
        best == {k \in styles : \A j \in styles : cnt(j) <= cnt(k)}
    IN  IF styles = {} THEN None
        ELSE bullet_patterns[CHOOSE k \in best : \A j \in best : before(k, j)][1]

\* variant: the format whose date comes first in the text
detect_date_format_leftmost(text) ==
    LET hits == {k \in DOMAIN date_patterns : Search(date_patterns[k][2], text)}
        at(k) == CHOOSE p \in 0..Len(text) :
                     /\ Ends(date_patterns[k][2], 1, text, p) # {}
                     /\ \A q \in 0..(p - 1) : Ends(date_patterns[k][2], 1, text, q) = {}
    IN  IF hits = {} THEN "unknown"
        ELSE date_patterns[CHOOSE k \in hits : \A j \in hits : at(k) <= at(j)][1]

\* the first pattern, in declaration order, found in the text
detect_date_format(text) ==
    LET hits == {k \in DOMAIN date_patterns : Search(date_patterns[k][2], text)}
    IN  IF hits = {} THEN "unknown"
        ELSE date_patterns[CHOOSE k \in hits : \A j \in hits : k <= j][1]

SampleLines == 10

\* variant: every header line opens a section that is found
StructureEveryHeader(text) ==
    LET lines == SplitLines(text)
        acc == ScanLines(lines, 1,
                   [current_section |-> None, section_headers |-> {}, sections |-> {}])
    IN  [section_headers |-> acc.section_headers,
         sections_found |-> {section_patterns[SectionOf(h)][2] : h \in acc.section_headers},
         bullet_style |-> detect_bullet_style(lines),
         date_format |-> detect_date_format(text),
         sample_lines |-> SubSeq(lines, 1, Min(SampleLines, Len(lines)))]

\* the part of the dict of analyze_report_structure that the text decides
Structure(text) ==
    LET lines == SplitLines(text)
        acc == ScanLines(lines, 1,
                   [current_section |-> None, section_headers |-> {}, sections |-> {}])
    IN  [section_headers |-> acc.section_headers,
         sections_found |-> acc.sections,
         bullet_style |-> detect_bullet_style(lines),
         date_format |-> detect_date_format(text),
         sample_lines |-> SubSeq(lines, 1, Min(SampleLines, Len(lines)))]

\* Structure on the reports of the model, computed once
StructureTable ==
    [text \in LearnTexts \cup InferTexts \cup FormatLearnTexts \cup SectionTexts |->
        Structure(text)]

\* the dict literal of analyze_report_structure (lines 60-69); required_sections is
\* a key the candidate does not have (has_required = FALSE)
TemplateDict(s, department, now) ==
    [department |-> department,
     section_headers |-> s.section_headers,
     sections_found |-> s.sections_found,
     bullet_style |-> s.bullet_style,
     date_format |-> s.date_format,
     sample_lines |-> s.sample_lines,
     last_updated |-> now,
     usage_count |-> 1,
     has_required |-> FALSE,
     required_sections |-> <<>>]

\* analyze_report_structure(text, department) at time now
analyze_report_structure(text, department, now) ==
    TemplateDict(StructureTable[text], department, now)

\* ------------------------------------------------------------------------
\* TemplateManager: the template store
\* ------------------------------------------------------------------------
\* A store is [heap |-> ..., templates |-> ...]: heap maps each live reference to
\* the dict it names, templates is self.templates, a map from the departments that
\* are keys of it to references.

\* the None that get_template returns for a department without template
NoRef == 0

\* variant: the candidate's headers replace the stored ones
MergeHeadersOverwrite(heap, existing, template) ==
    [heap EXCEPT ![existing].section_headers = heap[template].section_headers]

\* existing['section_headers'] = list(set(existing['section_headers'] + template['section_headers']))
MergeHeaders(heap, existing, template) ==
    [heap EXCEPT ![existing].section_headers =
        heap[existing].section_headers \cup heap[template].section_headers]

\* variant: the candidate's sections replace the stored ones
MergeSectionsOverwrite(heap, existing, template) ==
    [heap EXCEPT ![existing].sections_found = heap[template].sections_found]

\* existing['sections_found'] = list(set(existing['sections_found'] + template['sections_found']))
MergeSections(heap, existing, template) ==
    [heap EXCEPT ![existing].sections_found =
        heap[existing].sections_found \cup heap[template].sections_found]

\* variant: the merge forgets to count
BumpUsageNot(heap, existing) == heap

\* existing['usage_count'] += 1
BumpUsage(heap, existing) ==
    [heap EXCEPT ![existing].usage_count = heap[existing].usage_count + 1]

\* existing['last_updated'] = datetime.now().isoformat()
StampUpdated(heap, existing, now) ==
    [heap EXCEPT ![existing].last_updated = now]

\* self.templates[department] = template
StoreNew(templates, department, template) ==
    [d \in DOMAIN templates \cup {department} |->
        IF d = department THEN template ELSE templates[d]]

\* variant: the candidate always replaces the stored template
save_template_replace(st, department, template, now) ==
    [st EXCEPT !.templates = StoreNew(st.templates, department, template)]

\* variant: the merge takes required_sections from the candidate as well
save_template_relearn(st, department, template, now) ==
    IF department \in DOMAIN st.templates
    THEN LET existing == st.templates[department]
             merged == StampUpdated(
                           BumpUsage(
                               MergeSections(
                                   MergeHeaders(st.heap, existing, template),
                                   existing, template),
                               existing),
                           existing, now)
         IN  [st EXCEPT !.heap =
                 [merged EXCEPT ![existing].has_required = st.heap[template].has_required,
                                ![existing].required_sections =
                                    st.heap[template].required_sections]]
    ELSE [st EXCEPT !.templates = StoreNew(st.templates, department, template)]

\* save_template(department, template); template is a reference
save_template(st, department, template, now) ==
    IF department \in DOMAIN st.templates
    THEN LET existing == st.templates[department]
         IN  [st EXCEPT !.heap =
                 StampUpdated(
                     BumpUsage(
                         MergeSections(
                             MergeHeaders(st.heap, existing, template),
                             existing, template),
                         existing),
                     existing, now)]
    ELSE [st EXCEPT !.templates = StoreNew(st.templates, department, template)]

\* self.templates.get(department, None)
get_template(st, department) ==
    IF department \in DOMAIN st.templates THEN st.templates[department] ELSE NoRef

\* ------------------------------------------------------------------------
\* TemplateManager: validation
\* ------------------------------------------------------------------------
\* template.get('required_sections', [])
RequiredOf(template) ==
    IF template.has_required THEN template.required_sections ELSE <<>>

\* variant: the text is not lowercased
RECURSIVE MissingFromCased(_, _)
MissingFromCased(required, text) ==
    IF required = <<>> THEN <<>>
    ELSE (IF ~Contains(text, Head(required)) THEN <<Head(required)>> ELSE <<>>)
         \o MissingFromCased(Tail(required), text)

\* the loop `if section not in text.lower(): missing_sections.append(section)`
RECURSIVE MissingFrom(_, _)
MissingFrom(required, text) ==
    IF required = <<>> THEN <<>>
    ELSE (IF ~Contains(lower(text), Head(required)) THEN <<Head(required)>> ELSE <<>>)
         \o MissingFrom(Tail(required), text)

MissingSections(text, template) == MissingFrom(RequiredOf(template), text)

\* patterns.get(style, '') of _has_bullet: the dict has no 'letter' entry, and the
\* empty pattern is found in every line
has_bullet_patterns ==
    << <<"dash", DashPat>>, <<"asterisk", AsteriskPat>>, <<"number", NumberPat>>,
       <<"checkbox", CheckboxPat>>, <<"arrow", ArrowPat>>, <<"bullet", BulletPat>> >>

has_bullet(line, style) ==
    LET hit == {k \in DOMAIN has_bullet_patterns : has_bullet_patterns[k][1] = style}
        pat == IF hit = {} THEN <<>> ELSE has_bullet_patterns[CHOOSE k \in hit : TRUE][2]
    IN  Search(pat, line)

\* patterns.get(date_format, '') of _get_date_pattern: the dict has no 'text' entry
get_date_pattern(date_format) ==
    CASE date_format = "iso" -> IsoPat
      [] date_format = "us" -> UsPat
      [] date_format = "euro" -> EuroPat
      [] OTHER -> <<>>

\* whether validate_report sets date_warning
DateWarning(text, template) ==
    /\ template.date_format # None
    /\ template.date_format # "unknown"
    /\ ~Search(get_date_pattern(template.date_format), text)

\* the styles total_items tests
AnyBulletStyles == {"dash", "asterisk", "number", "checkbox", "arrow", "bullet"}

\* whether validate_report sets bullet_warning
BulletWarning(text, template) ==
    /\ template.bullet_style # None
    /\ LET lines == SplitLines(text)
           bullet_count == Cardinality({i \in DOMAIN lines :
                               has_bullet(lines[i], template.bullet_style)})
           total_items == Cardinality({i \in DOMAIN lines :
                               \E style \in AnyBulletStyles : has_bullet(lines[i], style)})
       IN  \* bullet_count / total_items < 0.5
           total_items > 0 /\ 2 * bullet_count < total_items

MissingPenalty == 20
HeaderWeight == 30
FullScore == 100

\* a score is the fraction num/den, den > 0
Rat(n, d) == [num |-> n, den |-> d]
RatLe(a, b) == a.num * b.den <= b.num * a.den
RatLt(a, b) == a.num * b.den < b.num * a.den
RatEq(a, b) == a.num * b.den = b.num * a.den

\* found_headers: the lines of the lowercased text holding some lowercased header
FoundHeaders(text, template_headers) ==
    LET lines == SplitLines(lower(text))
    IN  Cardinality({i \in DOMAIN lines :
            \E header \in template_headers : Contains(lines[i], header)})

\* variant: the larger of the two scores is kept
calculate_match_score_max(text, template) ==
    LET penalised == FullScore - MissingPenalty * Len(MissingSections(text, template))
        template_headers == {lower(h) : h \in template.section_headers}
        header_score == Rat(FoundHeaders(text, template_headers) * HeaderWeight,
                            Cardinality(template_headers))
        score == IF template_headers # {}
                 THEN (IF RatLe(Rat(penalised, 1), header_score)
                       THEN header_score ELSE Rat(penalised, 1))
                 ELSE Rat(penalised, 1)
    IN  IF RatLe(score, Rat(0, 1)) THEN Rat(0, 1) ELSE score

\* _calculate_match_score
calculate_match_score(text, template) ==
    LET penalised == FullScore - MissingPenalty * Len(MissingSections(text, template))
        template_headers == {lower(h) : h \in template.section_headers}
        header_score == Rat(FoundHeaders(text, template_headers) * HeaderWeight,
                            Cardinality(template_headers))
        score == IF template_headers # {}
                 THEN (IF RatLe(Rat(penalised, 1), header_score)
                       THEN Rat(penalised, 1) ELSE header_score)
                 ELSE Rat(penalised, 1)
    IN  IF RatLe(score, Rat(0, 1)) THEN Rat(0, 1) ELSE score

\* [w for w in [date_warning, bullet_warning] if w]
Warnings(text, template) ==
    (IF DateWarning(text, template) THEN <<"date">> ELSE <<>>)
    \o (IF BulletWarning(text, template) THEN <<"bullet">> ELSE <<>>)

\* variant: a warning makes the report invalid
validate_report_strict(st, text, department) ==
    LET ref == get_template(st, department)
    IN  IF ref = NoRef
        THEN [valid |-> TRUE, message |-> "No template defined for this department"]
        ELSE LET template == st.heap[ref]
             IN  [valid |-> /\ Len(MissingSections(text, template)) = 0
                            /\ Warnings(text, template) = <<>>,
                  missing_sections |-> MissingSections(text, template),
                  warnings |-> Warnings(text, template),
                  template_match_score |-> calculate_match_score(text, template)]

\* validate_report; the verdict of a department without template has only the
\* keys valid and message
validate_report(st, text, department) ==
    LET ref == get_template(st, department)
    IN  IF ref = NoRef
        THEN [valid |-> TRUE, message |-> "No template defined for this department"]
        ELSE LET template == st.heap[ref]
             IN  [valid |-> Len(MissingSections(text, template)) = 0,
                  missing_sections |-> MissingSections(text, template),
                  warnings |-> Warnings(text, template),
                  template_match_score |-> calculate_match_score(text, template)]

EmptyMap == [x \in {} |-> x]

\* ------------------------------------------------------------------------
\* TemplateManager: extraction
\* ------------------------------------------------------------------------
\* rf'^(?:#+\s*)?{section}:?$' found in the lowercased stripped line
OpensSection(section, line_stripped) ==
    Search(HeaderPattern({section}), lower(line_stripped))

\* d with d[key] = value, key added when missing
Put(d, key, value) ==
    [k \in DOMAIN d \cup {key} |-> IF k = key THEN value ELSE d[k]]

\* the loop over lines of extract_structured_data; acc carries current_section
\* and structured['sections']. The `continue` of line 270 continues the loop over
\* the sections, so the line that opens a section reaches the append of line 274.
RECURSIVE ExtractLines(_, _, _, _)
ExtractLines(lines, i, sections_found, acc) ==
    IF i > Len(lines) THEN acc
    ELSE LET line_stripped == strip(lines[i])
             hits == {section \in sections_found : OpensSection(section, line_stripped)}
             current == IF hits = {} THEN acc.current_section
                        ELSE CHOOSE section \in hits : TRUE
             opened == [k \in DOMAIN acc.sections \cup hits |->
                           IF k \in hits THEN <<>> ELSE acc.sections[k]]
         IN  IF line_stripped = <<>> THEN ExtractLines(lines, i + 1, sections_found, acc)
             ELSE IF current = None
             THEN ExtractLines(lines, i + 1, sections_found, acc)
             ELSE ExtractLines(lines, i + 1, sections_found,
                      [current_section |-> current,
                       sections |-> Put(opened, current,
                                        (IF current \in DOMAIN opened
                                         THEN opened[current] ELSE <<>>)
                                        \o <<line_stripped>>)])

\* _extract_generic_data
extract_generic_data(text) ==
    [department |-> "unknown",
     lines |-> SplitLines(text),
     word_count |-> Len(SplitWords(text)),
     has_dates |-> Search(IsoPat, text)]

\* extract_structured_data: the department and the sections of the result
extract_structured_data(st, text, department) ==
    LET ref == get_template(st, department)
    IN  IF ref = NoRef THEN extract_generic_data(text)
        ELSE [department |-> department,
              sections |-> ExtractLines(SplitLines(text), 1, st.heap[ref].sections_found,
                               [current_section |-> None, sections |-> EmptyMap]).sections]

\* ------------------------------------------------------------------------
\* EnhancedAI: the set project_words and its iteration order
\* ------------------------------------------------------------------------
\* project_words of _extract_topics
project_words ==
    { <<"b","u","g">>,
      <<"f","e","a","t","u","r","e">>,
      <<"d","e","p","l","o","y">>,
      <<"t","e","s","t">>,
      <<"m","e","e","t","i","n","g">>,
      <<"r","e","p","o","r","t">>,
      <<"d","a","t","a","b","a","s","e">>,
      <<"a","p","i">>,
      <<"s","y","s","t","e","m">>,
      <<"u","s","e","r">>,
      <<"c","l","i","e","n","t">>,
      <<"t","e","a","m">>,
      <<"p","r","o","j","e","c","t">>,
      <<"c","o","d","e">>,
      <<"s","o","f","t","w","a","r","e">>,
      <<"h","a","r","d","w","a","r","e">>,
      <<"n","e","t","w","o","r","k">>,
      <<"s","e","c","u","r","i","t","y">>,
      <<"p","e","r","f","o","r","m","a","n","c","e">>,
      <<"u","p","d","a","t","e">>,
      <<"v","e","r","s","i","o","n">>,
      <<"r","e","l","e","a","s","e">> }

\* `for topic in project_words` yields the words by their salted hashes: two of
\* the orders a run of the program can have (those of the hash seeds 1 and 2 of
\* CPython 3.11), of the many a process can start with
SeedOneOrder ==
    << <<"t","e","a","m">>,
       <<"d","a","t","a","b","a","s","e">>,
       <<"p","e","r","f","o","r","m","a","n","c","e">>,
       <<"c","l","i","e","n","t">>,
       <<"s","y","s","t","e","m">>,
       <<"r","e","p","o","r","t">>,
       <<"s","e","c","u","r","i","t","y">>,
       <<"p","r","o","j","e","c","t">>,
       <<"t","e","s","t">>,
       <<"c","o","d","e">>,
       <<"s","o","f","t","w","a","r","e">>,
       <<"n","e","t","w","o","r","k">>,
       <<"a","p","i">>,
       <<"r","e","l","e","a","s","e">>,
       <<"d","e","p","l","o","y">>,
       <<"m","e","e","t","i","n","g">>,
       <<"b","u","g">>,
       <<"f","e","a","t","u","r","e">>,
       <<"h","a","r","d","w","a","r","e">>,
       <<"u","s","e","r">>,
       <<"v","e","r","s","i","o","n">>,
       <<"u","p","d","a","t","e">> >>

SeedTwoOrder ==
    << <<"b","u","g">>,
       <<"t","e","s","t">>,
       <<"m","e","e","t","i","n","g">>,
       <<"p","e","r","f","o","r","m","a","n","c","e">>,
       <<"d","a","t","a","b","a","s","e">>,
       <<"c","o","d","e">>,
       <<"h","a","r","d","w","a","r","e">>,
       <<"p","r","o","j","e","c","t">>,
       <<"d","e","p","l","o","y">>,
       <<"s","o","f","t","w","a","r","e">>,
       <<"v","e","r","s","i","o","n">>,
       <<"r","e","l","e","a","s","e">>,
       <<"f","e","a","t","u","r","e">>,
       <<"u","p","d","a","t","e">>,
       <<"r","e","p","o","r","t">>,
       <<"s","y","s","t","e","m">>,
       <<"s","e","c","u","r","i","t","y">>,
       <<"t","e","a","m">>,
       <<"c","l","i","e","n","t">>,
       <<"a","p","i">>,
       <<"u","s","e","r">>,
       <<"n","e","t","w","o","r","k">> >>

SetOrders == {SeedOneOrder, SeedTwoOrder}

\* ------------------------------------------------------------------------
\* State
\* ------------------------------------------------------------------------
VARIABLES
    heap,        \* the template dicts, by reference
    templates,   \* template_manager.templates
    clock,       \* the value the next datetime.now() returns
    saves,       \* per department, the save_template calls made so far
    learned,     \* per department, the report candidates saved so far
    last,        \* the last handler call: its inputs, what it saw, what it returned
    loop,        \* the event-loop thread: the coroutine it runs and where it is
    posts,       \* the POST requests received, each with its coroutine's state
    reader,      \* the threadpool thread serving GET /api/templates/{department}
    commits,     \* per department, the templates as save_template calls found and left them
    analysis,    \* the input and the record of the last EnhancedAI.analyze call
    hash_order   \* the order in which this run of the program iterates the set
                 \* project_words (str hashes are salted per process)

vars == <<heap, templates, clock, saves, learned, last, loop, posts, reader, commits, analysis,
          hash_order>>

storeVars == <<heap, templates, clock, saves, learned>>
concVars == <<loop, posts, reader, commits>>
aiVars == <<analysis, hash_order>>

Departments == {"eng", "Eng"}

Store == [heap |-> heap, templates |-> templates]

\* a fresh reference
NewRef(h) == CHOOSE r \in 1..(Cardinality(DOMAIN h) + 1) : r \notin DOMAIN h

\* the dict a new reference names
Alloc(st, ref, obj) ==
    [st EXCEPT !.heap = [r \in DOMAIN st.heap \cup {ref} |->
                            IF r = ref THEN obj ELSE st.heap[r]]]

\* dicts no department refers to are collected
Collect(st) ==
    [st EXCEPT !.heap = [r \in {st.templates[d] : d \in DOMAIN st.templates} |->
                            st.heap[r]]]

\* the stored dict of a department, as a sequence of at most one element
StoredOf(st, department) ==
    IF department \in DOMAIN st.templates
    THEN <<st.heap[st.templates[department]]>> ELSE <<>>

Stored(department) == StoredOf(Store, department)

\* ------------------------------------------------------------------------
\* Handlers of simple_app.py, each run to completion
\* ------------------------------------------------------------------------
\* lines 597-598: the candidate is a new dict, passed on to save_template; the
\* two datetime.now() calls (candidate, merge) read successive clock values
LearnAndSave(st, department, text, now) ==
    LET ref == NewRef(st.heap)
        st1 == Alloc(st, ref, analyze_report_structure(text, department, now))
    IN  Collect(save_template(st1, department, ref, now + 1))

\* lines 657-660: the stored dict itself is changed and passed to save_template
SetAndSave(st, department, sections, now) ==
    LET template == get_template(st, department)
        st1 == [st EXCEPT !.heap[template].has_required = TRUE,
                          !.heap[template].required_sections = sections]
    IN  IF template = NoRef THEN st ELSE save_template(st1, department, template, now)

RECURSIVE SumOver(_, _)
SumOver(f, S) ==
    IF S = {} THEN 0
    ELSE LET x == CHOOSE y \in S : TRUE IN f[x] + SumOver(f, S \ {x})

TotalSaves == SumOver(saves, Departments)

\* POST /api/analyze-template
AnalyzeTemplate(department, text) ==
    /\ TotalSaves < MaxSaves
    /\ \E st \in {LearnAndSave(Store, department, text, clock)} :
           /\ heap' = st.heap
           /\ templates' = st.templates
           /\ last' = [op |-> "analyze_template", department |-> department,
                       text |-> text, pre |-> Stored(department),
                       cand |-> analyze_report_structure(text, department, clock),
                       saved |-> TRUE]
    /\ clock' = clock + 2
    /\ saves' = [saves EXCEPT ![department] = @ + 1]
    /\ learned' = [learned EXCEPT ![department] = @ + 1]
    /\ UNCHANGED <<concVars, aiVars>>

\* POST /api/set-template-sections
SetTemplateSections(department, sections) ==
    /\ TotalSaves < MaxSaves
    /\ LET st == SetAndSave(Store, department, sections, clock)
           found == department \in DOMAIN templates
       IN  /\ heap' = st.heap
           /\ templates' = st.templates
           /\ last' = [op |-> "set_template_sections", department |-> department,
                       sections |-> sections, pre |-> Stored(department),
                       cand |-> IF found
                                THEN [Stored(department)[1] EXCEPT
                                          !.has_required = TRUE,
                                          !.required_sections = sections]
                                ELSE EmptyMap,
                       saved |-> found]
           /\ saves' = [saves EXCEPT ![department] = IF found THEN @ + 1 ELSE @]
           /\ UNCHANGED learned
           /\ clock' = IF found THEN clock + 1 ELSE clock
    /\ UNCHANGED <<concVars, aiVars>>

\* POST /api/validate-report
ValidateReport(department, text) ==
    /\ last' = [op |-> "validate_report", department |-> department, text |-> text,
                pre |-> Stored(department),
                verdict |-> validate_report(Store, text, department),
                structured |-> extract_structured_data(Store, text, department),
                saved |-> FALSE]
    /\ UNCHANGED <<storeVars, concVars, aiVars>>

InitStore ==
    /\ heap = EmptyMap
    /\ templates = EmptyMap
    /\ clock = 0
    /\ saves = [d \in Departments |-> 0]
    /\ learned = [d \in Departments |-> 0]
    /\ last = [op |-> "none", saved |-> FALSE]

InitIdle ==
    /\ loop = [pc |-> "idle"]
    /\ posts = <<>>
    /\ reader = [pc |-> "idle"]
    /\ commits = [d \in Departments |-> {}]
    /\ analysis = [op |-> "none"]
    /\ hash_order \in SetOrders

Init == InitStore /\ InitIdle

Next ==
    \/ \E d \in Departments, text \in LearnTexts : AnalyzeTemplate(d, text)
    \/ \E d \in Departments, sections \in RequiredLists : SetTemplateSections(d, sections)

Spec == Init /\ [][Next]_vars

\* the validator, against the templates one department learns
ValidatedDepartment == "eng"

NextValidate ==
    \/ \E text \in LearnTexts : AnalyzeTemplate(ValidatedDepartment, text)
    \/ \E sections \in RequiredLists : SetTemplateSections(ValidatedDepartment, sections)
    \/ \E d \in Departments, text \in ValidateTexts : ValidateReport(d, text)

SpecValidate == Init /\ [][NextValidate]_vars

\* the inference of bullet style and date format, on the reports one department
\* uploads to /api/analyze-template
NextInfer == \E text \in InferTexts : AnalyzeTemplate(ValidatedDepartment, text)

SpecInfer == Init /\ [][NextInfer]_vars

\* the warnings and the extraction, against the templates one department learns
NextFormat ==
    \/ \E text \in FormatLearnTexts : AnalyzeTemplate(ValidatedDepartment, text)
    \/ \E text \in FormatTexts : ValidateReport(ValidatedDepartment, text)

SpecFormat == Init /\ [][NextFormat]_vars

\* the inference of sections, on the reports of SectionTexts
NextSections == \E text \in SectionTexts : AnalyzeTemplate(ValidatedDepartment, text)

SpecSections == Init /\ [][NextSections]_vars

\* ------------------------------------------------------------------------
\* The handlers under the server's scheduling (SpecConc)
\* ------------------------------------------------------------------------
\* analyze_template and set_template_sections are coroutines (async def): they run
\* on the one event-loop thread, which leaves a coroutine only at an await.
\* get_department_template is a plain function (def): FastAPI runs it on a
\* threadpool thread, which the interpreter may schedule between any two
\* statements of the event-loop thread.

\* the reports and lists posted while requests overlap
ConcTexts == {JoinLines(<<LnMetricsHdr, LnDashIso>>), JoinLines(<<LnPlansHdr, LnStarUs>>)}
ConcLists == {<<SecMetrics>>}

\* the fields save_template merges
MergeView(t) ==
    [section_headers |-> t.section_headers, sections_found |-> t.sections_found,
     usage_count |-> t.usage_count, last_updated |-> t.last_updated]

\* the template of a department as a save_template call finds or leaves it
Commit(cs, st, department) ==
    [cs EXCEPT ![department] = @ \cup {MergeView(StoredOf(st, department)[1])}]

\* a POST /api/analyze-template arrives; its coroutine stops at `await file.read()`
PostAnalyze(department, text) ==
    /\ Len(posts) < MaxPosts
    /\ posts' = Append(posts, [kind |-> "analyze", department |-> department,
                               text |-> text, pc |-> "await", saved |-> FALSE,
                               branch |-> "none"])
    /\ UNCHANGED <<storeVars, last, loop, reader, commits, aiVars>>

\* a POST /api/set-template-sections arrives; its coroutine has no await
PostSections(department, sections) ==
    /\ Len(posts) < MaxPosts
    /\ posts' = Append(posts, [kind |-> "set", department |-> department,
                               sections |-> sections, pc |-> "ready", saved |-> FALSE,
                               branch |-> "none"])
    /\ UNCHANGED <<storeVars, last, loop, reader, commits, aiVars>>

\* line 594: the upload is read, the coroutine can go on
FileRead(i) ==
    /\ posts[i].pc = "await"
    /\ posts' = [posts EXCEPT ![i].pc = "ready"]
    /\ UNCHANGED <<storeVars, last, loop, reader, commits, aiVars>>

\* the event loop, idle, runs a coroutine that can go on
Resume(i) ==
    /\ loop.pc = "idle"
    /\ posts[i].pc = "ready"
    /\ posts' = [posts EXCEPT ![i].pc = "running"]
    /\ loop' = [pc |-> IF posts[i].kind = "analyze" THEN "L597" ELSE "L657",
                running |-> i, department |-> posts[i].department]
    /\ UNCHANGED <<storeVars, last, reader, commits, aiVars>>

\* line 597: template = template_manager.analyze_report_structure(content, department)
LoopAnalyze ==
    /\ loop.pc = "L597"
    /\ LET ref == NewRef(heap)
           st == Alloc(Store, ref,
                       analyze_report_structure(posts[loop.running].text,
                                                loop.department, clock))
       IN  /\ heap' = st.heap
           /\ loop' = [loop EXCEPT !.pc = "L113"] @@ [template |-> ref]
    /\ clock' = clock + 1
    /\ UNCHANGED <<templates, saves, learned, last, posts, reader, commits, aiVars>>

\* lines 657-658: template = template_manager.get_template(department)
LoopGetForSet ==
    /\ loop.pc = "L657"
    /\ LET template == get_template(Store, loop.department)
       IN  loop' = [loop EXCEPT !.pc = IF template = NoRef THEN "return" ELSE "L659"]
                   @@ [template |-> template]
    /\ UNCHANGED <<storeVars, last, posts, reader, commits, aiVars>>

\* line 659: template['required_sections'] = sections
LoopSetRequired ==
    /\ loop.pc = "L659"
    /\ heap' = [heap EXCEPT ![loop.template].has_required = TRUE,
                            ![loop.template].required_sections =
                                posts[loop.running].sections]
    /\ loop' = [loop EXCEPT !.pc = "L113"]
    /\ UNCHANGED <<templates, clock, saves, learned, last, posts, reader, commits, aiVars>>

\* save_template, line 113: if department in self.templates
LoopSaveTest ==
    /\ loop.pc = "L113"
    /\ IF loop.department \in DOMAIN templates
       THEN /\ loop' = [loop EXCEPT !.pc = "L116"]
                       @@ [existing |-> templates[loop.department]]
            /\ commits' = Commit(commits, Store, loop.department)
            /\ posts' = [posts EXCEPT ![loop.running].branch = "merge"]
       ELSE /\ loop' = [loop EXCEPT !.pc = "L121"]
            /\ posts' = [posts EXCEPT ![loop.running].branch = "new"]
            /\ UNCHANGED commits
    /\ UNCHANGED <<storeVars, last, reader, aiVars>>

\* save_template, line 116
LoopMergeHeaders ==
    /\ loop.pc = "L116"
    /\ heap' = MergeHeaders(heap, loop.existing, loop.template)
    /\ loop' = [loop EXCEPT !.pc = "L117"]
    /\ UNCHANGED <<templates, clock, saves, learned, last, posts, reader, commits, aiVars>>

\* save_template, line 117
LoopMergeSections ==
    /\ loop.pc = "L117"
    /\ heap' = MergeSections(heap, loop.existing, loop.template)
    /\ loop' = [loop EXCEPT !.pc = "L118"]
    /\ UNCHANGED <<templates, clock, saves, learned, last, posts, reader, commits, aiVars>>

\* save_template, line 118
LoopBumpUsage ==
    /\ loop.pc = "L118"
    /\ heap' = BumpUsage(heap, loop.existing)
    /\ loop' = [loop EXCEPT !.pc = "L119"]
    /\ UNCHANGED <<templates, clock, saves, learned, last, posts, reader, commits, aiVars>>

\* save_template, line 119: the merge is complete
LoopStamp ==
    /\ loop.pc = "L119"
    /\ heap' = StampUpdated(heap, loop.existing, clock)
    /\ clock' = clock + 1
    /\ commits' = Commit(commits, [heap |-> heap', templates |-> templates],
                         loop.department)
    /\ saves' = [saves EXCEPT ![loop.department] = @ + 1]
    /\ learned' = [learned EXCEPT ![loop.department] =
                      IF posts[loop.running].kind = "analyze" THEN @ + 1 ELSE @]
    /\ posts' = [posts EXCEPT ![loop.running].saved = TRUE]
    /\ loop' = [loop EXCEPT !.pc = "return"]
    /\ UNCHANGED <<templates, last, reader, aiVars>>

\* save_template, line 121: the candidate becomes the stored template
LoopStoreNew ==
    /\ loop.pc = "L121"
    /\ templates' = StoreNew(templates, loop.department, loop.template)
    /\ commits' = Commit(commits, [heap |-> heap, templates |-> templates'],
                         loop.department)
    /\ saves' = [saves EXCEPT ![loop.department] = @ + 1]
    /\ learned' = [learned EXCEPT ![loop.department] =
                      IF posts[loop.running].kind = "analyze" THEN @ + 1 ELSE @]
    /\ posts' = [posts EXCEPT ![loop.running].saved = TRUE]
    /\ loop' = [loop EXCEPT !.pc = "return"]
    /\ UNCHANGED <<heap, clock, last, reader, aiVars>>

\* the handler returns its response; a candidate that was merged is garbage
LoopReturn ==
    /\ loop.pc = "return"
    /\ heap' = Collect(Store).heap
    /\ posts' = [posts EXCEPT ![loop.running].pc = "done"]
    /\ loop' = [pc |-> "idle"]
    /\ UNCHANGED <<templates, clock, saves, learned, last, reader, commits, aiVars>>

\* GET /api/templates/{department}, line 612, on a threadpool thread
ReaderGet(department) ==
    /\ reader.pc \in {"idle", "done"}
    /\ reader' = [pc |-> "got", department |-> department,
                  template |-> get_template(Store, department)]
    /\ UNCHANGED <<storeVars, last, loop, posts, commits, aiVars>>

\* lines 613-619: the thread reads the dict that get_template returned
ReaderRead ==
    /\ reader.pc = "got"
    /\ reader' = [reader EXCEPT !.pc = "done"]
                 @@ [seen |-> IF reader.template = NoRef THEN <<>>
                              ELSE <<heap[reader.template]>>]
    /\ UNCHANGED <<storeVars, last, loop, posts, commits, aiVars>>

NextConc ==
    \/ \E d \in Departments, text \in ConcTexts : PostAnalyze(d, text)
    \/ \E d \in Departments, sections \in ConcLists : PostSections(d, sections)
    \/ \E i \in DOMAIN posts : FileRead(i)
    \/ \E i \in DOMAIN posts : Resume(i)
    \/ LoopAnalyze
    \/ LoopGetForSet
    \/ LoopSetRequired
    \/ LoopSaveTest
    \/ LoopMergeHeaders
    \/ LoopMergeSections
    \/ LoopBumpUsage
    \/ LoopStamp
    \/ LoopStoreNew
    \/ LoopReturn
    \/ \E d \in Departments : ReaderGet(d)
    \/ ReaderRead

SpecConc == Init /\ [][NextConc]_vars

\* ------------------------------------------------------------------------
\* Properties of the template store (Spec)
\* ------------------------------------------------------------------------
HeaderFields == {"section_headers", "sections_found"}

\* the stored value of a header field before the last call (empty: no template)
Before(f) == IF last.pre = <<>> THEN {} ELSE last.pre[1][f]

\* the stored value of a header field after the last call
After(f) == Stored(last.department)[1][f]

\* C1: after every save_template call (the re-save of set_template_sections
\* included) the stored section_headers and sections_found are the union of the
\* sets stored before and the candidate's sets, hence supersets of the former.
C1_HeaderSetsGrowByUnion ==
    last.saved =>
        \A f \in HeaderFields :
            /\ After(f) = Before(f) \cup last.cand[f]
            /\ Before(f) \subseteq After(f)

\* a merge where each side brings a header the other lacks
C1_Witness ==
    /\ last.saved
    /\ last.pre # <<>>
    /\ ~(last.cand.section_headers \subseteq Before("section_headers"))
    /\ ~(Before("section_headers") \subseteq last.cand.section_headers)
    /\ After("section_headers") = Before("section_headers") \cup last.cand.section_headers

\* C2 (as claimed): a save_template for a department that has a template leaves
\* bullet_style, date_format and sample_lines equal to the candidate's, and the
\* header sets unioned.
C2_MostRecentWins ==
    (last.saved /\ last.pre # <<>>) =>
        LET stored == Stored(last.department)[1]
        IN  /\ stored.bullet_style = last.cand.bullet_style
            /\ stored.date_format = last.cand.date_format
            /\ stored.sample_lines = last.cand.sample_lines
            /\ \A f \in HeaderFields : After(f) = Before(f) \cup last.cand[f]

\* C3: the first save_template of a department stores the candidate, whose
\* usage_count is 1; every later one adds exactly 1; so usage_count is the number
\* of save_template calls made for the department.
C3_UsageCountCountsSaves ==
    /\ \A d \in Departments :
           IF d \in DOMAIN templates
           THEN Stored(d)[1].usage_count = saves[d] /\ saves[d] >= 1
           ELSE saves[d] = 0
    /\ last.saved =>
           LET stored == Stored(last.department)[1]
           IN  IF last.pre = <<>>
               THEN stored = last.cand /\ stored.usage_count = 1
               ELSE stored.usage_count = last.pre[1].usage_count + 1

\* the second save of a department
C3_Witness ==
    /\ last.saved
    /\ last.pre # <<>>
    /\ last.pre[1].usage_count = 1
    /\ saves[last.department] = 2
    /\ Stored(last.department)[1].usage_count = 2

\* C6: from any store state, saving the candidate of A and then that of B leaves
\* the same section_headers and sections_found as saving B's and then A's.
C6_SaveOrderIrrelevant ==
    \A d \in Departments, A \in LearnTexts, B \in LearnTexts :
        LET ab == LearnAndSave(LearnAndSave(Store, d, A, clock), d, B, clock + 2)
            ba == LearnAndSave(LearnAndSave(Store, d, B, clock), d, A, clock + 2)
        IN  \A f \in HeaderFields : StoredOf(ab, d)[1][f] = StoredOf(ba, d)[1][f]

EmptyStore == [heap |-> EmptyMap, templates |-> EmptyMap]

\* A then B were saved into an empty store, their header sets incomparable, and
\* the result is that of B then A
C6_Witness ==
    /\ last.op = "analyze_template"
    /\ last.pre # <<>>
    /\ last.pre[1].usage_count = 1
    /\ ~(last.cand.section_headers \subseteq Before("section_headers"))
    /\ ~(Before("section_headers") \subseteq last.cand.section_headers)
    /\ LET d == last.department
           A == JoinLines(last.pre[1].sample_lines)
           ba == LearnAndSave(LearnAndSave(EmptyStore, d, last.text, 0), d, A, 2)
       IN  \A f \in HeaderFields : StoredOf(ba, d)[1][f] = After(f)

\* ------------------------------------------------------------------------
\* Properties of the validator (SpecValidate)
\* ------------------------------------------------------------------------
IsVerdict == last.op = "validate_report"

\* the store holding one template for one department
StoreOf(department, template) ==
    [heap |-> <<template>>, templates |-> [d \in {department} |-> 1]]

\* C7: valid is true iff missing_sections is empty; a department without template
\* yields valid = true; and the verdict's valid is the one the same template yields
\* when it can raise no date-format or bullet-style warning.
C7_ValidIffNothingMissing ==
    IsVerdict =>
        IF last.pre = <<>>
        THEN last.verdict.valid
        ELSE LET quiet == [last.pre[1] EXCEPT !.bullet_style = None,
                                              !.date_format = "unknown"]
                 calm == validate_report(StoreOf(last.department, quiet),
                                         last.text, last.department)
             IN  /\ last.verdict.valid <=> (last.verdict.missing_sections = <<>>)
                 /\ calm.warnings = <<>>
                 /\ calm.valid = last.verdict.valid

\* a report with both warnings and all its required sections is valid
C7_Witness ==
    /\ IsVerdict
    /\ last.pre # <<>>
    /\ RequiredOf(last.pre[1]) # <<>>
    /\ last.verdict.warnings = <<"date", "bullet">>
    /\ last.verdict.valid

\* C8: missing_sections is the subsequence of required_sections, in order, of the
\* entries that are not substrings of the lowercased text; with ["metrics"]
\* required, a text holding "metrics" has nothing missing, and one without it has
\* "metrics" missing and is not valid.
C8_MissingSectionsExact ==
    (IsVerdict /\ last.pre # <<>>) =>
        LET R == RequiredOf(last.pre[1])
            absent(s) == ~Contains(lower(last.text), s)
        IN  /\ last.verdict.missing_sections = SelectSeq(R, absent)
            /\ R = <<SecMetrics>> =>
                   IF Contains(lower(last.text), SecMetrics)
                   THEN last.verdict.missing_sections = <<>>
                   ELSE /\ last.verdict.missing_sections = <<SecMetrics>>
                        /\ ~last.verdict.valid

\* two required sections, the second one the only one missing
C8_Witness ==
    /\ IsVerdict
    /\ last.pre # <<>>
    /\ RequiredOf(last.pre[1]) = <<SecPlans, SecMetrics>>
    /\ last.verdict.missing_sections = <<SecMetrics>>
    /\ ~last.verdict.valid

\* max(0, 100 - 20 k)
PenaltyScore(k) == Max(0, FullScore - MissingPenalty * k)

\* C9: the match score lies in [0, 100] and never exceeds max(0, 100 - 20 k), k
\* the number of missing required sections; with no known header it equals it.
C9_ScoreCappedByPenalty ==
    (IsVerdict /\ last.pre # <<>>) =>
        LET s == last.verdict.template_match_score
            pen == Rat(PenaltyScore(Len(last.verdict.missing_sections)), 1)
        IN  /\ s.den > 0
            /\ RatLe(Rat(0, 1), s)
            /\ RatLe(s, Rat(FullScore, 1))
            /\ RatLe(s, pen)
            /\ last.pre[1].section_headers = {} => RatEq(s, pen)

\* header coverage lowers a positive score
C9_Witness ==
    /\ IsVerdict
    /\ last.pre # <<>>
    /\ last.pre[1].section_headers # {}
    /\ RatLt(Rat(0, 1), last.verdict.template_match_score)
    /\ RatLt(last.verdict.template_match_score,
             Rat(PenaltyScore(Len(last.verdict.missing_sections)), 1))

\* ------------------------------------------------------------------------
\* Properties under the server's scheduling (SpecConc)
\* ------------------------------------------------------------------------
\* C4 (as claimed): what a GET reads of a template is the template as some
\* save_template call found it or left it, never a state in between, in which only
\* some of section_headers, sections_found, usage_count and last_updated are
\* updated.
C4_ReaderSeesWholeMerge ==
    (reader.pc = "done" /\ reader.seen # <<>>) =>
        MergeView(reader.seen[1]) \in commits[reader.department]

AllDone ==
    /\ loop.pc = "idle"
    /\ \A i \in DOMAIN posts : posts[i].pc = "done"

\* the requests whose handler called save_template for a department
SavedFor(d) == {i \in DOMAIN posts : posts[i].department = d /\ posts[i].saved}

\* what the candidate of a request brings to a header field; the candidate of
\* set_template_sections is the stored dict itself
Brings(i, f) ==
    IF posts[i].kind = "analyze" THEN Structure(posts[i].text)[f] ELSE {}

\* the handlers of the requests run one after the other, in the given order
RECURSIVE Replay(_, _, _, _)
Replay(order, k, st, now) ==
    IF k > Len(posts) THEN st
    ELSE LET p == posts[order[k]]
         IN  Replay(order, k + 1,
                    IF p.kind = "analyze"
                    THEN LearnAndSave(st, p.department, p.text, now)
                    ELSE SetAndSave(st, p.department, p.sections, now),
                    now + 2)

\* a stored template without its timestamp
Timeless(st, d) ==
    IF d \in DOMAIN st.templates
    THEN <<[StoredOf(st, d)[1] EXCEPT !.last_updated = 0]>> ELSE <<>>

\* C5: once all of n overlapping requests are served, every template is the one
\* some serial order of their handlers leaves: usage_count is the number of
\* save_template calls for the department, the header sets are the union over
\* the candidates, and exactly one call took the branch for a new department.
C5_SavesAreSerial ==
    AllDone =>
        /\ \E order \in Permutations(DOMAIN posts) :
               \A d \in Departments :
                   Timeless(Replay(order, 1, EmptyStore, 0), d) = Timeless(Store, d)
        /\ \A d \in Departments :
               IF SavedFor(d) = {} THEN d \notin DOMAIN templates
               ELSE /\ d \in DOMAIN templates
                    /\ Stored(d)[1].usage_count = Cardinality(SavedFor(d))
                    /\ \A f \in HeaderFields :
                           Stored(d)[1][f] = UNION {Brings(i, f) : i \in SavedFor(d)}
                    /\ Cardinality({i \in SavedFor(d) : posts[i].branch = "new"}) = 1

\* two uploads for one department overlapped: the one that arrived second was
\* saved first, and both are in the template
C5_Witness ==
    /\ AllDone
    /\ Len(posts) >= 2
    /\ posts[1].kind = "analyze" /\ posts[2].kind = "analyze"
    /\ posts[1].department = posts[2].department
    /\ posts[1].text # posts[2].text
    /\ posts[2].branch = "new" /\ posts[1].branch = "merge"
    /\ Stored(posts[1].department)[1].usage_count = 2

\* ------------------------------------------------------------------------
\* EnhancedAI: the keyword analyzer
\* ------------------------------------------------------------------------
positive_words ==
    { <<"g","o","o","d">>,
       <<"g","r","e","a","t">>,
       <<"e","x","c","e","l","l","e","n","t">>,
       <<"s","u","c","c","e","s","s">>,
       <<"c","o","m","p","l","e","t","e","d">>,
       <<"f","i","x","e","d">>,
       <<"w","o","r","k","i","n","g">>,
       <<"i","m","p","r","o","v","e","d">>,
       <<"f","i","n","i","s","h","e","d">>,
       <<"a","c","h","i","e","v","e","d">>,
       <<"p","o","s","i","t","i","v","e">>,
       <<"b","e","t","t","e","r">>,
       <<"f","a","s","t">>,
       <<"e","f","f","i","c","i","e","n","t">>,
       <<"s","o","l","v","e","d">>,
       <<"c","o","m","p","l","e","t","e","d">>,
       <<"d","e","p","l","o","y","e","d">>,
       <<"r","e","s","o","l","v","e","d">>,
       <<"l","a","u","n","c","h","e","d">> }

negative_words ==
    { <<"b","a","d">>,
       <<"p","o","o","r">>,
       <<"f","a","i","l","e","d">>,
       <<"i","s","s","u","e">>,
       <<"p","r","o","b","l","e","m">>,
       <<"e","r","r","o","r">>,
       <<"b","r","o","k","e","n">>,
       <<"s","l","o","w">>,
       <<"d","e","l","a","y","e","d">>,
       <<"b","l","o","c","k","e","d">>,
       <<"s","t","u","c","k">>,
       <<"n","e","g","a","t","i","v","e">>,
       <<"w","o","r","s","e">>,
       <<"d","i","f","f","i","c","u","l","t">>,
       <<"c","h","a","l","l","e","n","g","e">>,
       <<"r","i","s","k">>,
       <<"c","o","n","c","e","r","n">>,
       <<"b","u","g">>,
       <<"c","r","a","s","h">>,
       <<"d","o","w","n">>,
       <<"o","u","t","a","g","e">> }

\* the number of entries of a sequence of words that are in a lexicon
CountIn(words, lexicon) == Cardinality({i \in DOMAIN words : words[i] \in lexicon})

\* round(n / d, 2) for n >= 0, d > 0, in hundredths; a tie goes to the even
\* neighbour (ties need d to be a multiple of 8)
RoundHundredths(n, d) ==
    LET q == (100 * n) \div d
        r == (100 * n) % d
    IN  IF 2 * r < d THEN q
        ELSE IF 2 * r > d THEN q + 1
        ELSE IF q % 2 = 0 THEN q ELSE q + 1

\* variant: a tie counts as positive
SentimentTiePositive(pos_count, neg_count) ==
    IF pos_count >= neg_count
    THEN [label |-> "positive",
          score |-> RoundHundredths(pos_count, Max(pos_count + neg_count, 1)),
          positive_words |-> pos_count, negative_words |-> neg_count]
    ELSE [label |-> "negative",
          score |-> -RoundHundredths(neg_count, Max(pos_count + neg_count, 1)),
          positive_words |-> pos_count, negative_words |-> neg_count]

\* lines 96-105 and 122-127 of analyze: the sentiment entry, score in hundredths
Sentiment(pos_count, neg_count) ==
    IF pos_count > neg_count
    THEN [label |-> "positive",
          score |-> RoundHundredths(pos_count, Max(pos_count + neg_count, 1)),
          positive_words |-> pos_count, negative_words |-> neg_count]
    ELSE IF neg_count > pos_count
    THEN [label |-> "negative",
          score |-> -RoundHundredths(neg_count, Max(pos_count + neg_count, 1)),
          positive_words |-> pos_count, negative_words |-> neg_count]
    ELSE [label |-> "neutral", score |-> 0,
          positive_words |-> pos_count, negative_words |-> neg_count]

\* urgent_words of _detect_urgency
urgent_words ==
    { <<"u","r","g","e","n","t">>,
      <<"i","m","m","e","d","i","a","t","e">>,
      <<"a","s","a","p">>,
      <<"c","r","i","t","i","c","a","l">>,
      <<"e","m","e","r","g","e","n","c","y">>,
      <<"i","m","p","o","r","t","a","n","t">>,
      <<"b","l","o","c","k","e","d">>,
      <<"f","a","i","l","e","d">>,
      <<"b","r","o","k","e","n">>,
      <<"d","o","w","n">> }

\* accomplishment_keywords of _extract_accomplishments
accomplishment_keywords ==
    { <<"c","o","m","p","l","e","t","e","d">>,
      <<"f","i","n","i","s","h","e","d">>,
      <<"a","c","h","i","e","v","e","d">>,
      <<"f","i","x","e","d">>,
      <<"r","e","s","o","l","v","e","d">>,
      <<"d","e","p","l","o","y","e","d">>,
      <<"i","m","p","l","e","m","e","n","t","e","d">>,
      <<"l","a","u","n","c","h","e","d">>,
      <<"s","u","c","c","e","s","s">>,
      <<"g","o","o","d">>,
      <<"g","r","e","a","t">>,
      <<"e","x","c","e","l","l","e","n","t">> }

\* problem_keywords of _extract_problems
problem_keywords ==
    { <<"i","s","s","u","e">>,
      <<"p","r","o","b","l","e","m">>,
      <<"e","r","r","o","r">>,
      <<"b","u","g">>,
      <<"f","a","i","l","e","d">>,
      <<"b","l","o","c","k","e","d">>,
      <<"d","e","l","a","y","e","d">>,
      <<"s","t","u","c","k">>,
      <<"b","r","o","k","e","n">>,
      <<"c","h","a","l","l","e","n","g","e">>,
      <<"d","i","f","f","i","c","u","l","t">>,
      <<"s","l","o","w">>,
      <<"r","i","s","k">>,
      <<"c","o","n","c","e","r","n">> }

\* action_patterns of _extract_action_items
action_patterns ==
    { <<"n","e","e","d"," ","t","o">>,
      <<"m","u","s","t">>,
      <<"s","h","o","u","l","d">>,
      <<"w","i","l","l">>,
      <<"p","l","a","n"," ","t","o">>,
      <<"n","e","x","t"," ","s","t","e","p","s">>,
      <<"a","c","t","i","o","n"," ","r","e","q","u","i","r","e","d">>,
      <<"t","a","s","k">> }

\* any(k in s for k in keys)
AnyIn(keys, s) == \E k \in keys : Contains(s, k)

\* s[:n]
Take(s, n) == SubSeq(s, 1, Min(n, Len(s)))

Ellipsis == <<".", ".", ".">>

\* str.isalpha() on the characters the model uses
isalpha(w) == w # <<>> /\ \A i \in DOMAIN w : w[i] \in Letters

\* the loop `for topic in project_words: if topic in text_lower: topics.append(topic)`,
\* order being the order the set is iterated in
RECURSIVE TopicsIn(_, _)
TopicsIn(order, text_lower) ==
    IF order = <<>> THEN <<>>
    ELSE (IF Contains(text_lower, Head(order)) THEN <<Head(order)>> ELSE <<>>)
         \o TopicsIn(Tail(order), text_lower)

\* the words w of text_lower.split() with len(w) > 3 and w.isalpha()
RECURSIVE LongAlphaWords(_)
LongAlphaWords(words) ==
    IF words = <<>> THEN <<>>
    ELSE (IF Len(Head(words)) > 3 /\ isalpha(Head(words)) THEN <<Head(words)>> ELSE <<>>)
         \o LongAlphaWords(Tail(words))

\* words without the occurrences of w
RECURSIVE Without(_, _)
Without(words, w) ==
    IF words = <<>> THEN <<>>
    ELSE (IF Head(words) = w THEN <<>> ELSE <<Head(words)>>) \o Without(Tail(words), w)

\* [word for word, count in Counter(words).most_common(n)]: by falling count, words
\* of equal count in the order of their first occurrence
RECURSIVE MostCommon(_, _)
MostCommon(words, n) ==
    IF n = 0 \/ words = <<>> THEN <<>>
    ELSE LET i == CHOOSE k \in DOMAIN words :
                      \A j \in DOMAIN words :
                          \/ CountIn(words, {words[j]}) < CountIn(words, {words[k]})
                          \/ (CountIn(words, {words[j]}) = CountIn(words, {words[k]})
                              /\ k <= j)
         IN  <<words[i]>> \o MostCommon(Without(words, words[i]), n - 1)

\* _extract_topics, in a run that iterates project_words in the order `order`
extract_topics(text_lower, order) ==
    LET topics == TopicsIn(order, text_lower)
    IN  IF topics # <<>> THEN topics
        ELSE MostCommon(LongAlphaWords(SplitWords(text_lower)), 5)

\* [line.strip() for line in text.split('\n') if line.strip()]
RECURSIVE StrippedLines(_)
StrippedLines(lines) ==
    IF lines = <<>> THEN <<>>
    ELSE (IF strip(Head(lines)) # <<>> THEN <<strip(Head(lines))>> ELSE <<>>)
         \o StrippedLines(Tail(lines))

\* len(line) > 30 and not line.startswith(('=', '-', '#', '*'))
Informative(line) == Len(line) > 30 /\ line[1] \notin {"=", "-", "#", "*"}

\* variant: the summary always ends in an ellipsis
generate_summary_ellipsis(text) == Take(text, 100) \o Ellipsis

\* _generate_summary
generate_summary(text) ==
    LET lines == StrippedLines(SplitLines(text))
        hits == {i \in DOMAIN lines : Informative(lines[i])}
    IN  IF hits # {}
        THEN LET line == lines[CHOOSE i \in hits : \A j \in hits : i <= j]
             IN  IF Len(line) > 150 THEN Take(line, 150) \o Ellipsis ELSE line
        ELSE IF Len(text) > 100 THEN Take(text, 100) \o Ellipsis ELSE text

\* _detect_urgency
detect_urgency(text_lower) ==
    IF AnyIn(urgent_words, text_lower) THEN "high"
    ELSE IF CountIn(SplitWords(text_lower), negative_words) > 0 THEN "medium"
    ELSE "low"

\* the loop shared by _extract_accomplishments, _extract_problems and
\* _extract_action_items: the stripped lines that hold a keyword and are longer
\* than 10 characters
RECURSIVE KeywordLines(_, _)
KeywordLines(lines, keywords) ==
    IF lines = <<>> THEN <<>>
    ELSE (IF AnyIn(keywords, lower(Head(lines))) /\ Len(strip(Head(lines))) > 10
          THEN <<strip(Head(lines))>> ELSE <<>>)
         \o KeywordLines(Tail(lines), keywords)

extract_accomplishments(text) == KeywordLines(SplitLines(text), accomplishment_keywords)
extract_problems(text) == KeywordLines(SplitLines(text), problem_keywords)
extract_action_items(text) == KeywordLines(SplitLines(text), action_patterns)

\* EnhancedAI.analyze, in a run that iterates project_words in the order `order`
analyze_in(text, order) ==
    LET text_lower == lower(text)
        words == SplitWords(text_lower)
        pos_count == CountIn(words, positive_words)
        neg_count == CountIn(words, negative_words)
    IN  [sentiment |-> Sentiment(pos_count, neg_count),
         topics |-> Take(extract_topics(text_lower, order), 5),
         summary |-> generate_summary(text),
         word_count |-> Len(words),
         urgency |-> detect_urgency(text_lower),
         accomplishments |-> Take(extract_accomplishments(text), 3),
         problems |-> Take(extract_problems(text), 3),
         action_items |-> Take(extract_action_items(text), 3),
         analysis_complete |-> TRUE]

\* the words of the analyzed texts
AnalyzeWords ==
    {<<"g","o","o","d">>, <<"C","o","m","p","l","e","t","e","d">>, <<"b","u","g">>, <<"F","A","I","L","E","D">>, <<"b","u","g",".">>, <<"t","h","e">>}

\* '<w1> <w2> ...'
RECURSIVE JoinWords(_)
JoinWords(ws) ==
    IF Len(ws) = 0 THEN <<>>
    ELSE IF Len(ws) = 1 THEN ws[1]
    ELSE ws[1] \o <<" ">> \o JoinWords(Tail(ws))

AnalyzeTexts == {JoinWords(ws) : ws \in SeqsUpTo(AnalyzeWords, MaxWords)}

\* a report of three sentences on a single line
FirstSentence ==
    <<"C","o","m","p","l","e","t","e","d"," ","t","h","e"," ","d","e","p","l","o","y","m","e","n","t",".">>
SecondSentence ==
    <<"T","h","e","r","e"," ","w","a","s"," ","a"," ","c","r","i","t","i","c","a","l"," ","b","u","g"," ","b","l","o","c","k","i","n","g"," ","r","e","l","e","a","s","e",".">>
ThirdSentence ==
    <<"W","e"," ","m","u","s","t"," ","s","c","h","e","d","u","l","e"," ","a"," ","f","i","x"," ","t","o","m","o","r","r","o","w",".">>
ThreeSentences == JoinWords(<<FirstSentence, SecondSentence, ThirdSentence>>)

GoodWord == <<"g","o","o","d">>
FailedWord == <<"F","A","I","L","E","D">>
TheWord == <<"t","h","e">>
BugWord == <<"b","u","g">>

\* reports naming two of the project words
TestWord == <<"t","e","s","t">>
TopicTexts == {JoinWords(<<BugWord, TestWord>>), JoinWords(<<TestWord, BugWord>>)}

\* the reports the model analyzes
ReportTexts == AnalyzeTexts \cup {ThreeSentences} \cup TopicTexts

\* analyze_in on the reports of the model, computed once
AnalysisTable ==
    [text \in ReportTexts |-> [order \in SetOrders |-> analyze_in(text, order)]]

\* ai.analyze(text) in this run of the program
analyze(text) == AnalysisTable[text][hash_order]

\* ai.analyze(text), as /api/upload and /api/gemini-conclusion call it
Analyze(text) ==
    /\ analysis' = [op |-> "analyze", text |-> text, record |-> analyze(text),
                    order |-> hash_order]
    /\ UNCHANGED <<storeVars, last, concVars, hash_order>>

NextAnalyze == \E text \in ReportTexts : Analyze(text)

SpecAnalyze == Init /\ [][NextAnalyze]_vars

\* C10: the sentiment label is positive iff positive_words > negative_words,
\* negative iff negative_words > positive_words, and neutral with score 0 when
\* the counts are equal; the score is > 0 exactly for positive, < 0 exactly for
\* negative, and within [-1, 1] (here in hundredths).
C10_SentimentMatchesCounts ==
    analysis.op = "analyze" =>
        LET s == analysis.record.sentiment
            words == SplitWords(lower(analysis.text))
        IN  /\ s.positive_words = CountIn(words, positive_words)
            /\ s.negative_words = CountIn(words, negative_words)
            /\ s.label \in {"positive", "negative", "neutral"}
            /\ s.label = "positive" <=> s.positive_words > s.negative_words
            /\ s.label = "negative" <=> s.negative_words > s.positive_words
            /\ s.positive_words = s.negative_words => s.label = "neutral" /\ s.score = 0
            /\ s.score > 0 <=> s.label = "positive"
            /\ s.score < 0 <=> s.label = "negative"
            /\ -100 <= s.score /\ s.score <= 100

\* as many positive as negative words, and not none
C10_Witness ==
    /\ analysis.op = "analyze"
    /\ analysis.record.sentiment.positive_words = 1
    /\ analysis.record.sentiment.negative_words = 1
    /\ analysis.record.sentiment.label = "neutral"
    /\ analysis.record.sentiment.score = 0

\* ------------------------------------------------------------------------
\* EnhancedAI: the conclusion
\* ------------------------------------------------------------------------
\* the canned conclusions, named by their status line
GoodProgress == "Overall Status: Good Progress"
AttentionNeeded == "Overall Status: Attention Needed"
StableOperations == "Overall Status: Stable Operations"

\* variant: attention needs both a negative sentiment and a high urgency
generate_fallback_conclusion_both(analysis_record, now) ==
    [ai_conclusion |->
         IF analysis_record.sentiment.label = "positive" /\ analysis_record.urgency = "low"
         THEN GoodProgress
         ELSE IF analysis_record.sentiment.label = "negative"
                 /\ analysis_record.urgency = "high"
         THEN AttentionNeeded
         ELSE StableOperations,
     generated_by |-> "fallback_ai",
     timestamp |-> now]

\* _generate_fallback_conclusion
generate_fallback_conclusion(analysis_record, now) ==
    [ai_conclusion |->
         IF analysis_record.sentiment.label = "positive" /\ analysis_record.urgency = "low"
         THEN GoodProgress
         ELSE IF analysis_record.sentiment.label = "negative"
                 \/ analysis_record.urgency = "high"
         THEN AttentionNeeded
         ELSE StableOperations,
     generated_by |-> "fallback_ai",
     timestamp |-> now]

\* what gemini_model.generate_content does in one call: it raises, returns a falsy
\* response, a response whose text is empty, or a response with a text
GeminiOutcomes == {"raises", "none", "empty", "text"}

\* the module globals GEMINI_AVAILABLE and gemini_model (set or None) after the
\* setup of lines 33-68, and the outcome of the call
GeminiServices ==
    [available : BOOLEAN, has_model : BOOLEAN, outcome : GeminiOutcomes]

\* the text of a response of the service
GeminiText == "response.text"

\* generate_gemini_conclusion(text, basic_analysis)
generate_gemini_conclusion(basic_analysis, service, now) ==
    IF ~service.available \/ ~service.has_model
    THEN generate_fallback_conclusion(basic_analysis, now)
    ELSE IF service.outcome = "text"
    THEN [ai_conclusion |-> GeminiText, generated_by |-> "gemini_ai", timestamp |-> now]
    ELSE generate_fallback_conclusion(basic_analysis, now)

\* lines 420-424 of /api/upload: the analysis, then the conclusion
Conclude(text, service) ==
    /\ \E basic \in {analyze(text)} :
           analysis' = [op |-> "conclusion", text |-> text, record |-> basic,
                        service |-> service,
                        conclusion |-> generate_gemini_conclusion(basic, service, clock)]
    /\ UNCHANGED <<storeVars, last, concVars, hash_order>>

\* a report for each pair of sentiment label and urgency that analyze can return
ConclusionTexts ==
    { JoinWords(ws) : ws \in
        { <<>>, <<TheWord>>, <<GoodWord>>, <<BugWord>>, <<FailedWord>>,
          <<GoodWord, BugWord>>, <<GoodWord, FailedWord>>,
          <<GoodWord, GoodWord, BugWord>>, <<GoodWord, GoodWord, FailedWord>> } }

NextConclusion ==
    \E text \in ConclusionTexts, service \in GeminiServices : Conclude(text, service)

SpecConclusion == Init /\ [][NextConclusion]_vars

\* the service is unavailable, raises or returns empty content
ServiceFails(service) ==
    \/ ~service.available
    \/ ~service.has_model
    \/ service.outcome \in {"raises", "none", "empty"}

\* C11: whenever the enrichment service is unavailable, raises or returns empty
\* content, the conclusion is a record with generated_by = fallback_ai whose
\* narrative is Good Progress for (positive, low), Attention Needed for a negative
\* sentiment or a high urgency, and Stable Operations for every other combination.
C11_FallbackByLabelAndUrgency ==
    (analysis.op = "conclusion" /\ ServiceFails(analysis.service)) =>
        LET label == analysis.record.sentiment.label
            urgency == analysis.record.urgency
            c == analysis.conclusion
        IN  /\ c.generated_by = "fallback_ai"
            /\ c.ai_conclusion \in {GoodProgress, AttentionNeeded, StableOperations}
            /\ c.ai_conclusion = GoodProgress <=> (label = "positive" /\ urgency = "low")
            /\ c.ai_conclusion = AttentionNeeded <=> (label = "negative" \/ urgency = "high")
            /\ c.ai_conclusion = StableOperations <=>
                   (~(label = "positive" /\ urgency = "low")
                    /\ label # "negative" /\ urgency # "high")

\* the configured service raises on a report of positive sentiment and high urgency
C11_Witness ==
    /\ analysis.op = "conclusion"
    /\ analysis.service.available /\ analysis.service.has_model
    /\ analysis.service.outcome = "raises"
    /\ analysis.record.sentiment.label = "positive"
    /\ analysis.record.urgency = "high"
    /\ analysis.conclusion.generated_by = "fallback_ai"
    /\ analysis.conclusion.ai_conclusion = AttentionNeeded

\* ------------------------------------------------------------------------
\* EnhancedAI.analyze, again on the same report
\* ------------------------------------------------------------------------
\* the program is stopped and started: the new process has its own hash salt and
\* an empty template store; the record of the last analysis is what its caller kept
Restart ==
    /\ hash_order' \in SetOrders
    /\ heap' = EmptyMap
    /\ templates' = EmptyMap
    /\ saves' = [d \in Departments |-> 0]
    /\ learned' = [d \in Departments |-> 0]
    /\ last' = [op |-> "none", saved |-> FALSE]
    /\ loop' = [pc |-> "idle"]
    /\ posts' = <<>>
    /\ reader' = [pc |-> "idle"]
    /\ commits' = [d \in Departments |-> {}]
    /\ UNCHANGED <<clock, analysis>>

\* ai.analyze on the report analyzed last
Reanalyze ==
    /\ analysis.op \in {"analyze", "reanalyze"}
    /\ analysis' = [op |-> "reanalyze", text |-> analysis.text,
                    record |-> analyze(analysis.text), order |-> hash_order,
                    before |-> analysis.record, before_order |-> analysis.order]
    /\ UNCHANGED <<storeVars, last, concVars, hash_order>>

NextRerun ==
    \/ \E text \in ReportTexts : Analyze(text)
    \/ Restart
    \/ Reanalyze

SpecRerun == Init /\ [][NextRerun]_vars

\* C12: analyzing the same text twice, in the same or in different runs of the
\* program, yields identical records, the content and order of topics included.
C12_SameTextSameRecord ==
    analysis.op = "reanalyze" => analysis.record = analysis.before

\* C12, for two calls that find project_words in the same iteration order, as
\* two calls in one run of the program do: the two records are identical
C12_SameOrderSameRecord ==
    (analysis.op = "reanalyze" /\ analysis.before_order = analysis.order) =>
        analysis.record = analysis.before

\* ------------------------------------------------------------------------
\* EnhancedAI.analyze: properties of the record
\* ------------------------------------------------------------------------
\* the entries of a list
Entries(list) == {list[i] : i \in DOMAIN list}

\* C13: for the single-line report of three sentences, analyze returns
\* positive_words >= 1, negative_words >= 1, urgency high, accomplishments with the
\* first sentence as an entry, problems with the second sentence as an entry and
\* action_items with the third sentence as an entry.
C13_SentencesAreEntries ==
    (analysis.op = "analyze" /\ analysis.text = ThreeSentences) =>
        /\ analysis.record.sentiment.positive_words >= 1
        /\ analysis.record.sentiment.negative_words >= 1
        /\ analysis.record.urgency = "high"
        /\ FirstSentence \in Entries(analysis.record.accomplishments)
        /\ SecondSentence \in Entries(analysis.record.problems)
        /\ ThirdSentence \in Entries(analysis.record.action_items)

\* C13, the part the code meets: the counts, the urgency, and the whole line as
\* the one entry of each of the three lists
C13_WholeLineIsTheEntry ==
    (analysis.op = "analyze" /\ analysis.text = ThreeSentences) =>
        /\ analysis.record.sentiment.positive_words >= 1
        /\ analysis.record.sentiment.negative_words >= 1
        /\ analysis.record.urgency = "high"
        /\ analysis.record.accomplishments = <<ThreeSentences>>
        /\ analysis.record.problems = <<ThreeSentences>>
        /\ analysis.record.action_items = <<ThreeSentences>>

\* C14: analyze on the empty text returns word_count 0, positive and negative
\* counts 0, sentiment neutral with score 0, urgency low, an empty summary and
\* empty topics, accomplishments, problems and action_items.
C14_EmptyTextEmptyRecord ==
    (analysis.op = "analyze" /\ analysis.text = <<>>) =>
        /\ analysis.record.word_count = 0
        /\ analysis.record.sentiment.positive_words = 0
        /\ analysis.record.sentiment.negative_words = 0
        /\ analysis.record.sentiment.label = "neutral"
        /\ analysis.record.sentiment.score = 0
        /\ analysis.record.urgency = "low"
        /\ analysis.record.summary = <<>>
        /\ analysis.record.topics = <<>>
        /\ analysis.record.accomplishments = <<>>
        /\ analysis.record.problems = <<>>
        /\ analysis.record.action_items = <<>>

\* the empty text has been analyzed
C14_Witness ==
    /\ analysis.op = "analyze"
    /\ analysis.text = <<>>
    /\ analysis.record.analysis_complete
    /\ analysis.record.word_count = 0

\* ------------------------------------------------------------------------
\* Properties of the inference
\* ------------------------------------------------------------------------
\* C15: date format detection returns the first format, in the order iso, us,
\* euro, text, whose pattern matches anywhere in the text, and unknown when none
\* matches; a text with an ISO date and a US date is iso whichever comes first.
C15_DatePriority ==
    last.op = "analyze_template" =>
        LET iso == Search(IsoPat, last.text)
            us == Search(UsPat, last.text)
            euro == Search(EuroPat, last.text)
            text == Search(TextPat, last.text)
            format == last.cand.date_format
        IN  /\ iso => format = "iso"
            /\ (~iso /\ us) => format = "us"
            /\ (~iso /\ ~us /\ euro) => format = "euro"
            /\ (~iso /\ ~us /\ ~euro /\ text) => format = "text"
            /\ (~iso /\ ~us /\ ~euro /\ ~text) => format = "unknown"

\* a report whose US date comes before its ISO date is detected as iso
C15_Witness ==
    /\ last.op = "analyze_template"
    /\ last.text = JoinLines(<<LnStarUs, LnDashIso>>)
    /\ last.cand.date_format = "iso"

\* the style the claim names for the lines of a report: the one with the most
\* matching lines, among equals the one declared first, None when no line matches
DeclaredFirstStyle(lines) ==
    LET styles == {k \in DOMAIN bullet_patterns :
                      BulletCount(lines, bullet_patterns[k][2]) > 0}
        best == {k \in styles : \A j \in styles :
                    BulletCount(lines, bullet_patterns[j][2])
                        <= BulletCount(lines, bullet_patterns[k][2])}
    IN  IF styles = {} THEN None
        ELSE bullet_patterns[CHOOSE k \in best : \A j \in best : k <= j][1]

\* C17: bullet style detection returns the style with the most matching lines;
\* among styles that tie for the most, the one declared first (dash, asterisk,
\* number, letter, checkbox, arrow, bullet) wins, whatever the order of the lines;
\* with no matching line the result is None.
C17_DeclaredOrderBreaksTies ==
    last.op = "analyze_template" =>
        last.cand.bullet_style = DeclaredFirstStyle(SplitLines(last.text))

\* ------------------------------------------------------------------------
\* Properties of the validator: headers, warnings, extraction
\* ------------------------------------------------------------------------
\* the template's known headers, lowercased, that are found in the lowercased text
HeadersFound(text, template) ==
    {h \in {lower(x) : x \in template.section_headers} : Contains(lower(text), h)}

\* C16: for a template with n >= 1 known headers the match score equals
\* max(0, min(100 - 20 k, 30 f / n)), f the number of the template's known headers
\* found in the text, so it never exceeds 30.
C16_ScoreFromHeadersFound ==
    (IsVerdict /\ last.pre # <<>> /\ last.pre[1].section_headers # {}) =>
        LET s == last.verdict.template_match_score
            n == Cardinality({lower(x) : x \in last.pre[1].section_headers})
            f == Cardinality(HeadersFound(last.text, last.pre[1]))
            pen == Rat(FullScore - MissingPenalty * Len(last.verdict.missing_sections), 1)
            cover == Rat(HeaderWeight * f, n)
            least == IF RatLe(pen, cover) THEN pen ELSE cover
            claimed == IF RatLe(least, Rat(0, 1)) THEN Rat(0, 1) ELSE least
        IN  /\ f <= n
            /\ RatEq(s, claimed)
            /\ RatLe(s, Rat(HeaderWeight, 1))

\* the date pattern of a format, by the table of the detection
DetectionPattern(format) ==
    date_patterns[CHOOSE k \in DOMAIN date_patterns : date_patterns[k][1] = format][2]

\* C18: for each known date_format of the template (iso, us, euro, text) the
\* verdict carries a date-format warning exactly when that format's pattern matches
\* nowhere in the text; for date_format unknown it carries none.
C18_DateWarningForEveryFormat ==
    (IsVerdict /\ last.pre # <<>>) =>
        LET format == last.pre[1].date_format
            warned == "date" \in Entries(last.verdict.warnings)
        IN  /\ format \in {"iso", "us", "euro", "text"} =>
                   (warned <=> ~Search(DetectionPattern(format), last.text))
            /\ format = "unknown" => ~warned

\* C18, the part the code meets: the warning is as claimed for iso, us and euro,
\* and is never given for text or unknown
C18_DateWarningButForText ==
    (IsVerdict /\ last.pre # <<>>) =>
        LET format == last.pre[1].date_format
            warned == "date" \in Entries(last.verdict.warnings)
        IN  /\ format \in {"iso", "us", "euro"} =>
                   (warned <=> ~Search(DetectionPattern(format), last.text))
            /\ format \in {"text", "unknown"} => ~warned

\* the bullet pattern of a style, by the table of the detection
DetectionBullet(style) ==
    bullet_patterns[CHOOSE k \in DOMAIN bullet_patterns : bullet_patterns[k][1] = style][2]

\* C19: for each bullet_style the inference can produce (dash, asterisk, number,
\* letter, checkbox, arrow, bullet) the verdict carries a bullet-style warning
\* exactly when some line of the text matches a recognized bullet style and fewer
\* than half of those bulleted lines match the template's style.
C19_BulletWarningForEveryStyle ==
    (IsVerdict /\ last.pre # <<>> /\ last.pre[1].bullet_style # None) =>
        LET style == last.pre[1].bullet_style
            lines == SplitLines(last.text)
            bulleted == {i \in DOMAIN lines :
                            \E any \in AnyBulletStyles :
                                Search(DetectionBullet(any), lines[i])}
            matching == {i \in bulleted : Search(DetectionBullet(style), lines[i])}
            warned == "bullet" \in Entries(last.verdict.warnings)
        IN  warned <=> (bulleted # {} /\ 2 * Cardinality(matching) < Cardinality(bulleted))

\* C19, the part the code meets: the warning is as claimed for every style but
\* letter, and is never given for letter
C19_BulletWarningButForLetter ==
    (IsVerdict /\ last.pre # <<>> /\ last.pre[1].bullet_style # None) =>
        LET style == last.pre[1].bullet_style
            lines == SplitLines(last.text)
            bulleted == {i \in DOMAIN lines :
                            \E any \in AnyBulletStyles :
                                Search(DetectionBullet(any), lines[i])}
            matching == {i \in bulleted : Search(DetectionBullet(style), lines[i])}
            warned == "bullet" \in Entries(last.verdict.warnings)
        IN  IF style = "letter" THEN ~warned
            ELSE warned <=> (bulleted # {}
                             /\ 2 * Cardinality(matching) < Cardinality(bulleted))

\* the partition the inference makes of a text: a header line opens its section
\* and belongs to none, each following non-blank line that is no header is
\* appended to the section opened last, lines before the first header are dropped
RECURSIVE InferencePartition(_, _, _)
InferencePartition(lines, i, acc) ==
    IF i > Len(lines) THEN acc.sections
    ELSE LET line_stripped == strip(lines[i])
             sec == SectionOf(line_stripped)
         IN  IF line_stripped = <<>> THEN InferencePartition(lines, i + 1, acc)
             ELSE IF sec # 0
             THEN InferencePartition(lines, i + 1,
                      [acc EXCEPT !.current_section = section_patterns[sec][2]])
             ELSE IF acc.current_section # None
             THEN InferencePartition(lines, i + 1,
                      [acc EXCEPT !.sections =
                          Put(@, acc.current_section,
                              (IF acc.current_section \in DOMAIN @
                               THEN @[acc.current_section] ELSE <<>>)
                              \o <<line_stripped>>)])
             ELSE InferencePartition(lines, i + 1, acc)

\* the template is the one the inference learns from the text alone
LearnedFrom(template, text) ==
    /\ template.usage_count = 1
    /\ template.section_headers = Structure(text).section_headers
    /\ template.sections_found = Structure(text).sections_found
    /\ template.sample_lines = Structure(text).sample_lines

\* C20: extract_structured_data partitions a text as the inference does; for a
\* text whose template was learned from that same text the extracted sections are
\* those of the inference, header lines belong to no section's content, and the
\* extracted section names equal the template's sections_found.
C20_ExtractionFollowsInference ==
    (IsVerdict /\ last.pre # <<>> /\ LearnedFrom(last.pre[1], last.text)) =>
        /\ last.structured.sections =
               InferencePartition(SplitLines(last.text), 1,
                   [current_section |-> None, sections |-> EmptyMap])
        /\ DOMAIN last.structured.sections = last.pre[1].sections_found

\* C20, the names alone
C20_ExtractedNamesAreSectionsFound ==
    (IsVerdict /\ last.pre # <<>> /\ LearnedFrom(last.pre[1], last.text)) =>
        DOMAIN last.structured.sections = last.pre[1].sections_found

\* ------------------------------------------------------------------------
\* TemplateManager as a class: save_template called with a dict the store holds
\* ------------------------------------------------------------------------
\* template_manager.save_template(department, template_manager.get_template(other)):
\* the candidate is the dict saved first for another department
SaveStored(department, other) ==
    /\ TotalSaves < MaxSaves
    /\ other # department
    /\ other \in DOMAIN templates
    /\ \E st \in {save_template(Store, department, get_template(Store, other), clock)} :
           /\ heap' = st.heap
           /\ templates' = st.templates
           /\ last' = [op |-> "save_template", department |-> department,
                       other |-> other, pre |-> Stored(department),
                       cand |-> Stored(other)[1], saved |-> TRUE]
    /\ clock' = IF department \in DOMAIN templates THEN clock + 1 ELSE clock
    /\ saves' = [saves EXCEPT ![department] = @ + 1]
    /\ learned' = [learned EXCEPT ![department] = @ + 1]
    /\ UNCHANGED <<concVars, aiVars>>

NextStore ==
    \/ \E d \in Departments, text \in LearnTexts : AnalyzeTemplate(d, text)
    \/ \E d \in Departments, other \in Departments : SaveStored(d, other)

SpecStore == Init /\ [][NextStore]_vars

\* a step that called save_template for last'.department leaves the template of
\* every other department as it was
OtherKeysKept ==
    last'.saved =>
        \A d \in Departments \ {last'.department} :
            StoredOf([heap |-> heap', templates |-> templates'], d) = Stored(d)

\* C21: save_template(d, candidate) changes only the template stored under d; the
\* template under every other key is left unchanged, whatever the candidate, one
\* that was earlier passed to save_template for another department included.
C21_SaveChangesOnlyItsKey == [][OtherKeysKept]_vars

\* C21, for the calls the request handlers make: a new candidate, or the stored
\* template of the same department
C21_HandlersChangeOnlyTheirKey ==
    [][last'.op \in {"analyze_template", "set_template_sections"} => OtherKeysKept]_vars

\* ------------------------------------------------------------------------
\* Properties of set_template_sections (Spec)
\* ------------------------------------------------------------------------
\* the last call was a set_template_sections that found a template
SectionsSet == last.op = "set_template_sections" /\ last.saved

\* the keys of a template that hold required_sections
RequiredFields == {"has_required", "required_sections"}

\* C22: the usage_count of a department's stored template is the number of report
\* candidates saved for the department; set_template_sections changes only
\* required_sections: usage_count, section_headers and sections_found are as
\* they were before it.
C22_UsageCountCountsCandidates ==
    /\ \A d \in DOMAIN templates : Stored(d)[1].usage_count = learned[d]
    /\ SectionsSet =>
           LET stored == Stored(last.department)[1]
           IN  \A f \in DOMAIN stored \ RequiredFields : stored[f] = last.pre[1][f]

\* C22, the part the code meets: set_template_sections leaves section_headers and
\* sections_found as they were, and usage_count is the number of candidates saved
\* plus the number of times required_sections was set
C22_SectionsSetKeepsHeaders ==
    /\ \A d \in DOMAIN templates :
           /\ Stored(d)[1].usage_count = saves[d]
           /\ learned[d] <= saves[d]
    /\ SectionsSet =>
           LET stored == Stored(last.department)[1]
           IN  /\ \A f \in HeaderFields : stored[f] = last.pre[1][f]
               /\ stored.usage_count = last.pre[1].usage_count + 1
               /\ stored.required_sections = last.sections

\* ------------------------------------------------------------------------
\* Properties of required_sections (SpecValidate)
\* ------------------------------------------------------------------------
\* set_template_sections has found a template of the department at least once:
\* it is the only caller of save_template besides analyze_template
EverSet(d) == saves[d] > learned[d]

\* C23: once required_sections has been set for a department, a later
\* save_template of an inferred candidate leaves it exactly as set; a template
\* for which it was never set validates with an empty required list: nothing is
\* missing and the report is valid.
C23_LearningKeepsRequired ==
    /\ \A d \in DOMAIN templates :
           /\ Stored(d)[1].has_required <=> EverSet(d)
           /\ ~EverSet(d) => RequiredOf(Stored(d)[1]) = <<>>
    /\ (last.op = "analyze_template" /\ last.pre # <<>>) =>
           LET stored == Stored(last.department)[1]
           IN  /\ stored.has_required = last.pre[1].has_required
               /\ RequiredOf(stored) = RequiredOf(last.pre[1])
    /\ (IsVerdict /\ last.pre # <<>> /\ ~EverSet(last.department)) =>
           /\ last.verdict.missing_sections = <<>>
           /\ last.verdict.valid

\* two required sections were set, and a report bringing a new header was
\* learned after that
C23_Witness ==
    /\ last.op = "analyze_template"
    /\ last.pre # <<>>
    /\ EverSet(last.department)
    /\ RequiredOf(last.pre[1]) = <<SecPlans, SecMetrics>>
    /\ ~(last.cand.section_headers \subseteq last.pre[1].section_headers)
    /\ ~last.cand.has_required
    /\ RequiredOf(Stored(last.department)[1]) = <<SecPlans, SecMetrics>>

\* ------------------------------------------------------------------------
\* Properties of the inference of sections (SpecSections)
\* ------------------------------------------------------------------------
\* a line that matches one of the section patterns, once stripped and lowercased
IsHeaderLine(line) == strip(line) # <<>> /\ SectionOf(strip(line)) # 0

\* a line that is neither blank nor a header
IsContentLine(line) == strip(line) # <<>> /\ SectionOf(strip(line)) = 0

\* the canonical name of the section a header line opens
CanonicalName(line) == section_patterns[SectionOf(strip(line))][2]

\* header line i is followed by a content line before the next header
HasContent(lines, i) ==
    \E j \in (i + 1)..Len(lines) :
        /\ IsContentLine(lines[j])
        /\ \A k \in (i + 1)..(j - 1) : ~IsHeaderLine(lines[k])

\* header line i is directly followed by another header or is the last line
Bare(lines, i) == i = Len(lines) \/ IsHeaderLine(lines[i + 1])

\* C24: in a candidate of analyze_report_structure, sections_found is the set of
\* canonical names whose header line is followed by a non-blank, non-header line
\* before the next header or the end of the text, and section_headers holds the
\* text (stripped) of every matched header line; a header directly followed by a
\* header or by the end of the text is in section_headers and brings no name to
\* sections_found.
C24_SectionsFoundHaveContent ==
    last.op = "analyze_template" =>
        LET lines == SplitLines(last.text)
            headers == {i \in DOMAIN lines : IsHeaderLine(lines[i])}
        IN  /\ last.cand.sections_found =
                   {CanonicalName(lines[i]) : i \in {h \in headers : HasContent(lines, h)}}
            /\ last.cand.section_headers = {strip(lines[i]) : i \in headers}
            /\ \A i \in headers :
                   Bare(lines, i) =>
                       /\ strip(lines[i]) \in last.cand.section_headers
                       /\ CanonicalName(lines[i]) \in last.cand.sections_found =>
                              \E h \in headers \ {i} :
                                  /\ CanonicalName(lines[h]) = CanonicalName(lines[i])
                                  /\ HasContent(lines, h)

\* "Metrics:" directly followed by "## Plans" and a bullet: two headers, and
\* plans the only section found
C24_Witness ==
    /\ last.op = "analyze_template"
    /\ last.text = JoinLines(<<LnMetricsHdr, LnPlansHdr, LnDash>>)
    /\ last.cand.section_headers = {LnMetricsHdr, LnPlansHdr}
    /\ last.cand.sections_found = {"plans"}
====
